---- MODULE Spec2Model ----
(***************************************************************************)
(* State-machine model of the agricultural advisor bot                     *)
(* (src/agricultural_advisor_bot.py) and of the SQLite helpers             *)
(* (src/init_mandi_soil.py).                                               *)
(*                                                                         *)
(* Text is modelled as a sequence of Unicode code points, so str.lower()   *)
(* and the substring test `kw in text` are computed, not assumed.          *)
(* Text that the program only passes through (responses, error messages)   *)
(* is modelled as a sequence of named segments.                            *)
(***************************************************************************)
EXTENDS Integers, Sequences, FiniteSets, TLC

VARIABLES
  user_city,        \* AgriculturalAdvisorBot.user_city  (None or a city)
  user_crop,        \* AgriculturalAdvisorBot.user_crop  (None or a crop)
  user_language,    \* AgriculturalAdvisorBot.user_language
  is_initialized,   \* AgriculturalAdvisorBot.is_initialized
  api_key,          \* GroqAgriculturalAdvisor.api_key is configured (truthy)
  policy_loaded,    \* ImprovedPolicyChatbot.is_loaded
  db,               \* agri_data.db: the committed rows of each table, or "missing"
  init_run,         \* the init_db call in progress: its position and arguments
  stats_run,        \* the get_database_stats call in progress: the counts read
  cli_conn,         \* the connection of the sqlite_cli run in progress
  last              \* the last operation: its inputs, its calls and its result

vars == <<user_city, user_crop, user_language, is_initialized,
          api_key, policy_loaded, db, init_run, stats_run, cli_conn, last>>

session == <<user_city, user_crop, user_language, is_initialized>>

\* The local store and the processes at work on it
store == <<db, init_run, stats_run, cli_conn>>

\* None, where a text (a sequence of code points, all >= 0) is expected
None == <<-1>>

\* The argument of a call that the model does not follow
NoArg == <<-2>>

\* Not applicable: a value that was not produced, a collaborator not reached
NA == "na"

(***************************************************************************)
(* Strings                                                                 *)
(***************************************************************************)

T_Kanpur == <<75,97,110,112,117,114>>  \* "Kanpur"
T_kanpur == <<107,97,110,112,117,114>>  \* "kanpur"
T_Pune == <<80,117,110,101>>  \* "Pune"
T_wheat == <<119,104,101,97,116>>  \* "wheat"
T_Wheat == <<87,104,101,97,116>>  \* "Wheat"
T_Rice == <<82,105,99,101>>  \* "Rice"
T_English == <<69,110,103,108,105,115,104>>  \* "English"
T_Hindi == <<72,105,110,100,105>>  \* "Hindi"
T_yield == <<121,105,101,108,100>>  \* "yield"
D_kanpur_nagar == <<75,97,110,112,117,114,32,78,97,103,97,114>>  \* "Kanpur Nagar"
D_agra == <<65,103,114,97>>  \* "Agra"

\* "Kanpur" and "Lucknow" typed with the KELVIN SIGN (U+212A) for their K or k
T_Kanpur_kelvin == <<8490,97,110,112,117,114>>
T_Lucknow_kelvin == <<76,117,99,8490,110,111,119>>

Min(S) == CHOOSE x \in S : \A y \in S : x <= y

\* The code points above U+007F that str.lower() maps to one other code point
\* (Unicode 14.0, the tables of CPython 3.11).  A run is four numbers first,
\* last, step, value: it has the code points first, first + step, ..., last,
\* and the lower case of each is `value` code points further on.
LowerRuns ==
  <<
    192,214,1,32,  216,222,1,32,  256,302,2,1,  306,310,2,1,
    313,327,2,1,  330,374,2,1,  376,376,1,-121,  377,381,2,1,
    385,385,1,210,  386,388,2,1,  390,390,1,206,  391,391,1,1,
    393,394,1,205,  395,395,1,1,  398,398,1,79,  399,399,1,202,
    400,400,1,203,  401,401,1,1,  403,403,1,205,  404,404,1,207,
    406,406,1,211,  407,407,1,209,  408,408,1,1,  412,412,1,211,
    413,413,1,213,  415,415,1,214,  416,420,2,1,  422,422,1,218,
    423,423,1,1,  425,425,1,218,  428,428,1,1,  430,430,1,218,
    431,431,1,1,  433,434,1,217,  435,437,2,1,  439,439,1,219,
    440,440,1,1,  444,444,1,1,  452,452,1,2,  453,453,1,1,
    455,455,1,2,  456,456,1,1,  458,458,1,2,  459,475,2,1,
    478,494,2,1,  497,497,1,2,  498,500,2,1,  502,502,1,-97,
    503,503,1,-56,  504,542,2,1,  544,544,1,-130,  546,562,2,1,
    570,570,1,10795,  571,571,1,1,  573,573,1,-163,  574,574,1,10792,
    577,577,1,1,  579,579,1,-195,  580,580,1,69,  581,581,1,71,
    582,590,2,1,  880,882,2,1,  886,886,1,1,  895,895,1,116,
    902,902,1,38,  904,906,1,37,  908,908,1,64,  910,911,1,63,
    913,929,1,32,  931,939,1,32,  975,975,1,8,  984,1006,2,1,
    1012,1012,1,-60,  1015,1015,1,1,  1017,1017,1,-7,  1018,1018,1,1,
    1021,1023,1,-130,  1024,1039,1,80,  1040,1071,1,32,  1120,1152,2,1,
    1162,1214,2,1,  1216,1216,1,15,  1217,1229,2,1,  1232,1326,2,1,
    1329,1366,1,48,  4256,4293,1,7264,  4295,4295,1,7264,  4301,4301,1,7264,
    5024,5103,1,38864,  5104,5109,1,8,  7312,7354,1,-3008,  7357,7359,1,-3008,
    7680,7828,2,1,  7838,7838,1,-7615,  7840,7934,2,1,  7944,7951,1,-8,
    7960,7965,1,-8,  7976,7983,1,-8,  7992,7999,1,-8,  8008,8013,1,-8,
    8025,8031,2,-8,  8040,8047,1,-8,  8072,8079,1,-8,  8088,8095,1,-8,
    8104,8111,1,-8,  8120,8121,1,-8,  8122,8123,1,-74,  8124,8124,1,-9,
    8136,8139,1,-86,  8140,8140,1,-9,  8152,8153,1,-8,  8154,8155,1,-100,
    8168,8169,1,-8,  8170,8171,1,-112,  8172,8172,1,-7,  8184,8185,1,-128,
    8186,8187,1,-126,  8188,8188,1,-9,  8486,8486,1,-7517,  8490,8490,1,-8383,
    8491,8491,1,-8262,  8498,8498,1,28,  8544,8559,1,16,  8579,8579,1,1,
    9398,9423,1,26,  11264,11311,1,48,  11360,11360,1,1,  11362,11362,1,-10743,
    11363,11363,1,-3814,  11364,11364,1,-10727,  11367,11371,2,1,  11373,11373,1,-10780,
    11374,11374,1,-10749,  11375,11375,1,-10783,  11376,11376,1,-10782,  11378,11378,1,1,
    11381,11381,1,1,  11390,11391,1,-10815,  11392,11490,2,1,  11499,11501,2,1,
    11506,11506,1,1,  42560,42604,2,1,  42624,42650,2,1,  42786,42798,2,1,
    42802,42862,2,1,  42873,42875,2,1,  42877,42877,1,-35332,  42878,42886,2,1,
    42891,42891,1,1,  42893,42893,1,-42280,  42896,42898,2,1,  42902,42920,2,1,
    42922,42922,1,-42308,  42923,42923,1,-42319,  42924,42924,1,-42315,  42925,42925,1,-42305,
    42926,42926,1,-42308,  42928,42928,1,-42258,  42929,42929,1,-42282,  42930,42930,1,-42261,
    42931,42931,1,928,  42932,42946,2,1,  42948,42948,1,-48,  42949,42949,1,-42307,
    42950,42950,1,-35384,  42951,42953,2,1,  42960,42960,1,1,  42966,42968,2,1,
    42997,42997,1,1,  65313,65338,1,32,  66560,66599,1,40,  66736,66771,1,40,
    66928,66938,1,39,  66940,66954,1,39,  66956,66962,1,39,  66964,66965,1,39,
    68736,68786,1,64,  71840,71871,1,32,  93760,93791,1,32,  125184,125217,1,34
  >>

\* What a code point is to a capital sigma next to it, as runs first, last,
\* step, value of all the code points: value 1 for the ones its lower-casing
\* skips over (_PyUnicode_IsCaseIgnorable), value 2 for the other cased letters
\* (_PyUnicode_IsCased)
SigmaRuns ==
  <<
    39,39,1,1,  46,46,1,1,  58,58,1,1,  65,90,1,2,
    94,96,2,1,  97,122,1,2,  168,168,1,1,  170,170,1,2,
    173,175,2,1,  180,180,1,1,  181,181,1,2,  183,184,1,1,
    186,186,1,2,  192,214,1,2,  216,246,1,2,  248,442,1,2,
    444,447,1,2,  452,659,1,2,  661,687,1,2,  688,879,1,1,
    880,883,1,2,  884,885,1,1,  886,887,1,2,  890,890,1,1,
    891,893,1,2,  895,895,1,2,  900,901,1,1,  902,904,2,2,
    903,903,1,1,  905,906,1,2,  908,910,2,2,  911,929,1,2,
    931,1013,1,2,  1015,1153,1,2,  1155,1161,1,1,  1162,1327,1,2,
    1329,1366,1,2,  1369,1369,1,1,  1375,1375,1,1,  1376,1416,1,2,
    1425,1469,1,1,  1471,1473,2,1,  1474,1476,2,1,  1477,1479,2,1,
    1524,1524,1,1,  1536,1541,1,1,  1552,1562,1,1,  1564,1564,1,1,
    1600,1600,1,1,  1611,1631,1,1,  1648,1648,1,1,  1750,1757,1,1,
    1759,1768,1,1,  1770,1773,1,1,  1807,1809,2,1,  1840,1866,1,1,
    1958,1968,1,1,  2027,2037,1,1,  2042,2042,1,1,  2045,2045,1,1,
    2070,2093,1,1,  2137,2139,1,1,  2184,2184,1,1,  2192,2193,1,1,
    2200,2207,1,1,  2249,2306,1,1,  2362,2364,2,1,  2369,2376,1,1,
    2381,2381,1,1,  2385,2391,1,1,  2402,2403,1,1,  2417,2417,1,1,
    2433,2433,1,1,  2492,2492,1,1,  2497,2500,1,1,  2509,2509,1,1,
    2530,2531,1,1,  2558,2558,1,1,  2561,2562,1,1,  2620,2620,1,1,
    2625,2626,1,1,  2631,2632,1,1,  2635,2637,1,1,  2641,2641,1,1,
    2672,2673,1,1,  2677,2677,1,1,  2689,2690,1,1,  2748,2748,1,1,
    2753,2757,1,1,  2759,2760,1,1,  2765,2765,1,1,  2786,2787,1,1,
    2810,2815,1,1,  2817,2817,1,1,  2876,2876,1,1,  2879,2881,2,1,
    2882,2884,1,1,  2893,2893,1,1,  2901,2902,1,1,  2914,2915,1,1,
    2946,2946,1,1,  3008,3008,1,1,  3021,3021,1,1,  3072,3072,1,1,
    3076,3076,1,1,  3132,3134,2,1,  3135,3136,1,1,  3142,3144,1,1,
    3146,3149,1,1,  3157,3158,1,1,  3170,3171,1,1,  3201,3201,1,1,
    3260,3260,1,1,  3263,3263,1,1,  3270,3270,1,1,  3276,3277,1,1,
    3298,3299,1,1,  3328,3329,1,1,  3387,3388,1,1,  3393,3396,1,1,
    3405,3405,1,1,  3426,3427,1,1,  3457,3457,1,1,  3530,3530,1,1,
    3538,3540,1,1,  3542,3542,1,1,  3633,3633,1,1,  3636,3642,1,1,
    3654,3662,1,1,  3761,3761,1,1,  3764,3772,1,1,  3782,3784,2,1,
    3785,3789,1,1,  3864,3865,1,1,  3893,3897,2,1,  3953,3966,1,1,
    3968,3972,1,1,  3974,3975,1,1,  3981,3991,1,1,  3993,4028,1,1,
    4038,4038,1,1,  4141,4144,1,1,  4146,4151,1,1,  4153,4154,1,1,
    4157,4158,1,1,  4184,4185,1,1,  4190,4192,1,1,  4209,4212,1,1,
    4226,4226,1,1,  4229,4230,1,1,  4237,4237,1,1,  4253,4253,1,1,
    4256,4293,1,2,  4295,4295,1,2,  4301,4301,1,2,  4304,4346,1,2,
    4348,4348,1,1,  4349,4351,1,2,  4957,4959,1,1,  5024,5109,1,2,
    5112,5117,1,2,  5906,5908,1,1,  5938,5939,1,1,  5970,5971,1,1,
    6002,6003,1,1,  6068,6069,1,1,  6071,6077,1,1,  6086,6086,1,1,
    6089,6099,1,1,  6103,6103,1,1,  6109,6109,1,1,  6155,6159,1,1,
    6211,6211,1,1,  6277,6278,1,1,  6313,6313,1,1,  6432,6434,1,1,
    6439,6440,1,1,  6450,6450,1,1,  6457,6459,1,1,  6679,6680,1,1,
    6683,6683,1,1,  6742,6744,2,1,  6745,6750,1,1,  6752,6754,2,1,
    6757,6764,1,1,  6771,6780,1,1,  6783,6783,1,1,  6823,6823,1,1,
    6832,6862,1,1,  6912,6915,1,1,  6964,6966,2,1,  6967,6970,1,1,
    6972,6972,1,1,  6978,6978,1,1,  7019,7027,1,1,  7040,7041,1,1,
    7074,7077,1,1,  7080,7081,1,1,  7083,7085,1,1,  7142,7144,2,1,
    7145,7145,1,1,  7149,7151,2,1,  7152,7153,1,1,  7212,7219,1,1,
    7222,7223,1,1,  7288,7293,1,1,  7296,7304,1,2,  7312,7354,1,2,
    7357,7359,1,2,  7376,7378,1,1,  7380,7392,1,1,  7394,7400,1,1,
    7405,7405,1,1,  7412,7412,1,1,  7416,7417,1,1,  7424,7467,1,2,
    7468,7530,1,1,  7531,7543,1,2,  7544,7544,1,1,  7545,7578,1,2,
    7579,7679,1,1,  7680,7957,1,2,  7960,7965,1,2,  7968,8005,1,2,
    8008,8013,1,2,  8016,8023,1,2,  8025,8031,2,2,  8032,8061,1,2,
    8064,8116,1,2,  8118,8124,1,2,  8125,8127,2,1,  8126,8126,1,2,
    8128,8129,1,1,  8130,8132,1,2,  8134,8140,1,2,  8141,8143,1,1,
    8144,8147,1,2,  8150,8155,1,2,  8157,8159,1,1,  8160,8172,1,2,
    8173,8175,1,1,  8178,8180,1,2,  8182,8188,1,2,  8189,8190,1,1,
    8203,8207,1,1,  8216,8217,1,1,  8228,8228,1,1,  8231,8231,1,1,
    8234,8238,1,1,  8288,8292,1,1,  8294,8303,1,1,  8305,8305,1,1,
    8319,8319,1,1,  8336,8348,1,1,  8400,8432,1,1,  8450,8450,1,2,
    8455,8455,1,2,  8458,8467,1,2,  8469,8469,1,2,  8473,8477,1,2,
    8484,8490,2,2,  8491,8493,1,2,  8495,8500,1,2,  8505,8505,1,2,
    8508,8511,1,2,  8517,8521,1,2,  8526,8526,1,2,  8544,8575,1,2,
    8579,8580,1,2,  9398,9449,1,2,  11264,11387,1,2,  11388,11389,1,1,
    11390,11492,1,2,  11499,11502,1,2,  11503,11505,1,1,  11506,11507,1,2,
    11520,11557,1,2,  11559,11559,1,2,  11565,11565,1,2,  11631,11631,1,1,
    11647,11647,1,1,  11744,11775,1,1,  11823,11823,1,1,  12293,12293,1,1,
    12330,12333,1,1,  12337,12341,1,1,  12347,12347,1,1,  12441,12446,1,1,
    12540,12542,1,1,  40981,40981,1,1,  42232,42237,1,1,  42508,42508,1,1,
    42560,42605,1,2,  42607,42610,1,1,  42612,42621,1,1,  42623,42623,1,1,
    42624,42651,1,2,  42652,42655,1,1,  42736,42737,1,1,  42752,42785,1,1,
    42786,42863,1,2,  42864,42864,1,1,  42865,42887,1,2,  42888,42890,1,1,
    42891,42894,1,2,  42896,42954,1,2,  42960,42961,1,2,  42963,42965,2,2,
    42966,42969,1,2,  42994,42996,1,1,  42997,42998,1,2,  43000,43001,1,1,
    43002,43002,1,2,  43010,43010,1,1,  43014,43014,1,1,  43019,43019,1,1,
    43045,43046,1,1,  43052,43052,1,1,  43204,43205,1,1,  43232,43249,1,1,
    43263,43263,1,1,  43302,43309,1,1,  43335,43345,1,1,  43392,43394,1,1,
    43443,43443,1,1,  43446,43449,1,1,  43452,43453,1,1,  43471,43471,1,1,
    43493,43494,1,1,  43561,43566,1,1,  43569,43570,1,1,  43573,43574,1,1,
    43587,43587,1,1,  43596,43596,1,1,  43632,43632,1,1,  43644,43644,1,1,
    43696,43698,2,1,  43699,43700,1,1,  43703,43704,1,1,  43710,43711,1,1,
    43713,43713,1,1,  43741,43741,1,1,  43756,43757,1,1,  43763,43764,1,1,
    43766,43766,1,1,  43824,43866,1,2,  43867,43871,1,1,  43872,43880,1,2,
    43881,43883,1,1,  43888,43967,1,2,  44005,44005,1,1,  44008,44008,1,1,
    44013,44013,1,1,  64256,64262,1,2,  64275,64279,1,2,  64286,64286,1,1,
    64434,64450,1,1,  65024,65039,1,1,  65043,65043,1,1,  65056,65071,1,1,
    65106,65106,1,1,  65109,65109,1,1,  65279,65279,1,1,  65287,65287,1,1,
    65294,65294,1,1,  65306,65306,1,1,  65313,65338,1,2,  65342,65344,2,1,
    65345,65370,1,2,  65392,65392,1,1,  65438,65439,1,1,  65507,65507,1,1,
    65529,65531,1,1,  66045,66045,1,1,  66272,66272,1,1,  66422,66426,1,1,
    66560,66639,1,2,  66736,66771,1,2,  66776,66811,1,2,  66928,66938,1,2,
    66940,66954,1,2,  66956,66962,1,2,  66964,66965,1,2,  66967,66977,1,2,
    66979,66993,1,2,  66995,67001,1,2,  67003,67004,1,2,  67456,67461,1,1,
    67463,67504,1,1,  67506,67514,1,1,  68097,68099,1,1,  68101,68102,1,1,
    68108,68111,1,1,  68152,68154,1,1,  68159,68159,1,1,  68325,68326,1,1,
    68736,68786,1,2,  68800,68850,1,2,  68900,68903,1,1,  69291,69292,1,1,
    69446,69456,1,1,  69506,69509,1,1,  69633,69633,1,1,  69688,69702,1,1,
    69744,69744,1,1,  69747,69748,1,1,  69759,69761,1,1,  69811,69814,1,1,
    69817,69818,1,1,  69821,69821,1,1,  69826,69826,1,1,  69837,69837,1,1,
    69888,69890,1,1,  69927,69931,1,1,  69933,69940,1,1,  70003,70003,1,1,
    70016,70017,1,1,  70070,70078,1,1,  70089,70092,1,1,  70095,70095,1,1,
    70191,70193,1,1,  70196,70198,2,1,  70199,70199,1,1,  70206,70206,1,1,
    70367,70367,1,1,  70371,70378,1,1,  70400,70401,1,1,  70459,70460,1,1,
    70464,70464,1,1,  70502,70508,1,1,  70512,70516,1,1,  70712,70719,1,1,
    70722,70724,1,1,  70726,70726,1,1,  70750,70750,1,1,  70835,70840,1,1,
    70842,70842,1,1,  70847,70848,1,1,  70850,70851,1,1,  71090,71093,1,1,
    71100,71101,1,1,  71103,71104,1,1,  71132,71133,1,1,  71219,71226,1,1,
    71229,71231,2,1,  71232,71232,1,1,  71339,71341,2,1,  71344,71349,1,1,
    71351,71351,1,1,  71453,71455,1,1,  71458,71461,1,1,  71463,71467,1,1,
    71727,71735,1,1,  71737,71738,1,1,  71840,71903,1,2,  71995,71996,1,1,
    71998,71998,1,1,  72003,72003,1,1,  72148,72151,1,1,  72154,72155,1,1,
    72160,72160,1,1,  72193,72202,1,1,  72243,72248,1,1,  72251,72254,1,1,
    72263,72263,1,1,  72273,72278,1,1,  72281,72283,1,1,  72330,72342,1,1,
    72344,72345,1,1,  72752,72758,1,1,  72760,72765,1,1,  72767,72767,1,1,
    72850,72871,1,1,  72874,72880,1,1,  72882,72883,1,1,  72885,72886,1,1,
    73009,73014,1,1,  73018,73020,2,1,  73021,73023,2,1,  73024,73029,1,1,
    73031,73031,1,1,  73104,73105,1,1,  73109,73111,2,1,  73459,73460,1,1,
    78896,78904,1,1,  92912,92916,1,1,  92976,92982,1,1,  92992,92995,1,1,
    93760,93823,1,2,  94031,94031,1,1,  94095,94111,1,1,  94176,94177,1,1,
    94179,94180,1,1,  110576,110579,1,1,  110581,110587,1,1,  110589,110590,1,1,
    113821,113822,1,1,  113824,113827,1,1,  118528,118573,1,1,  118576,118598,1,1,
    119143,119145,1,1,  119155,119170,1,1,  119173,119179,1,1,  119210,119213,1,1,
    119362,119364,1,1,  119808,119892,1,2,  119894,119964,1,2,  119966,119967,1,2,
    119970,119970,1,2,  119973,119974,1,2,  119977,119980,1,2,  119982,119993,1,2,
    119995,119997,2,2,  119998,120003,1,2,  120005,120069,1,2,  120071,120074,1,2,
    120077,120084,1,2,  120086,120092,1,2,  120094,120121,1,2,  120123,120126,1,2,
    120128,120132,1,2,  120134,120134,1,2,  120138,120144,1,2,  120146,120485,1,2,
    120488,120512,1,2,  120514,120538,1,2,  120540,120570,1,2,  120572,120596,1,2,
    120598,120628,1,2,  120630,120654,1,2,  120656,120686,1,2,  120688,120712,1,2,
    120714,120744,1,2,  120746,120770,1,2,  120772,120779,1,2,  121344,121398,1,1,
    121403,121452,1,1,  121461,121461,1,1,  121476,121476,1,1,  121499,121503,1,1,
    121505,121519,1,1,  122624,122633,1,2,  122635,122654,1,2,  122880,122886,1,1,
    122888,122904,1,1,  122907,122913,1,1,  122915,122916,1,1,  122918,122922,1,1,
    123184,123197,1,1,  123566,123566,1,1,  123628,123631,1,1,  125136,125142,1,1,
    125184,125251,1,2,  125252,125259,1,1,  127280,127305,1,2,  127312,127337,1,2,
    127344,127369,1,2,  127995,127999,1,1,  917505,917505,1,1,  917536,917631,1,1,
    917760,917999,1,1
  >>

\* The value of the run `ks` of a table; 0 when there is none
ValueOf(runs, ks) ==
  IF ks = {} THEN 0 ELSE runs[4 * (CHOOSE k \in ks : TRUE)]

\* The value a table of runs has for the code point c; 0 when it has none
RunValue(c, runs) ==
  ValueOf(runs, {k \in 1..(Len(runs) \div 4) :
                   /\ runs[4 * k - 3] <= c
                   /\ c <= runs[4 * k - 2]
                   /\ (c - runs[4 * k - 3]) % runs[4 * k - 1] = 0})

\* chr(c).lower(), as code points: 'A'..'Z' map to 'a'..'z' and the other
\* ASCII characters to themselves; U+0130 has a lower case of two code points
LowerChar(c) ==
  IF c < 128 THEN <<IF c \in 65..90 THEN c + 32 ELSE c>>
  ELSE IF c = 304 THEN <<105, 775>>
  ELSE <<c + RunValue(c, LowerRuns)>>

\* The lower case of the capital sigma (U+03A3) at position i, given what the
\* code points around it are: the final sigma when a cased letter comes before
\* it and none comes after it, the case-ignorable code points skipped on both
\* sides; the small sigma otherwise
lower_sigma(kinds, i) ==
  IF /\ \E j \in 1..(i - 1) :
          kinds[j] = 2 /\ \A m \in (j + 1)..(i - 1) : kinds[m] = 1
     /\ \A j \in (i + 1)..Len(kinds) :
          kinds[j] = 2 => \E m \in (i + 1)..(j - 1) : kinds[m] # 1
  THEN <<962>> ELSE <<963>>

\* The lower case of s from its code point i on
RECURSIVE lower_from(_, _)
lower_from(s, i) ==
  IF i > Len(s) THEN << >>
  ELSE (IF s[i] = 931
        THEN lower_sigma([j \in 1..Len(s) |-> RunValue(s[j], SigmaRuns)], i)
        ELSE LowerChar(s[i]))
       \o lower_from(s, i + 1)

\* str.lower()
Lower(s) == lower_from(s, 1)

\* Python's `sub in s` for strings
Contains(sub, s) ==
  \E i \in 0..(Len(s) - Len(sub)) :
    \A j \in 1..Len(sub) : s[i + j] = sub[j]

\* any(kw in s for kw in kws)
AnyIn(kws, s) == \E i \in 1..Len(kws) : Contains(kws[i], s)

\* sum(1 for keyword in kws if keyword in s)
Score(kws, s) == Cardinality({i \in 1..Len(kws) : Contains(kws[i], s)})

(***************************************************************************)
(* Literal data of QueryClassifier, and the texts the model runs on        *)
(***************************************************************************)

\* intent_mappings['weather'] (line 42..49)
intents_weather ==
  <<
    <<119,101,97,116,104,101,114,95,113,117,101,114,121>>,  \* "weather_query"
    <<119,101,97,116,104,101,114,95,105,110,113,117,105,114,121>>,  \* "weather_inquiry"
    <<99,108,105,109,97,116,101,95,113,117,101,115,116,105,111,110>>,  \* "climate_question"
    <<116,101,109,112,101,114,97,116,117,114,101,95,113,117,101,115,116,105,111,110>>,  \* "temperature_question"
    <<114,97,105,110,102,97,108,108,95,113,117,101,115,116,105,111,110>>  \* "rainfall_question"
  >>

\* intent_mappings['policy'] (line 42..49)
intents_policy ==
  <<
    <<112,111,108,105,99,121,95,113,117,101,114,121>>,  \* "policy_query"
    <<112,111,108,105,99,121,95,105,110,113,117,105,114,121>>,  \* "policy_inquiry"
    <<115,99,104,101,109,101,95,113,117,101,115,116,105,111,110>>,  \* "scheme_question"
    <<115,117,98,115,105,100,121,95,113,117,101,115,116,105,111,110>>,  \* "subsidy_question"
    <<103,111,118,101,114,110,109,101,110,116,95,104,101,108,112>>  \* "government_help"
  >>

\* intent_mappings['price'] (line 42..49)
intents_price ==
  <<
    <<112,114,105,99,101,95,113,117,101,114,121>>,  \* "price_query"
    <<109,97,114,107,101,116,95,113,117,101,115,116,105,111,110>>,  \* "market_question"
    <<112,114,105,99,101,95,105,110,113,117,105,114,121>>,  \* "price_inquiry"
    <<109,97,110,100,105,95,113,117,101,115,116,105,111,110>>  \* "mandi_question"
  >>

\* intent_mappings['technical'] (line 42..49)
intents_technical ==
  <<
    <<116,101,99,104,110,105,99,97,108,95,115,117,112,112,111,114,116>>,  \* "technical_support"
    <<101,113,117,105,112,109,101,110,116,95,113,117,101,115,116,105,111,110>>,  \* "equipment_question"
    <<116,101,99,104,110,111,108,111,103,121,95,113,117,101,115,116,105,111,110>>,  \* "technology_question"
    <<114,101,112,97,105,114,95,113,117,101,115,116,105,111,110>>  \* "repair_question"
  >>

\* intent_mappings['general'] (line 42..49)
intents_general ==
  <<
    <<103,101,110,101,114,97,108,95,105,110,113,117,105,114,121>>,  \* "general_inquiry"
    <<98,97,115,105,99,95,113,117,101,115,116,105,111,110>>,  \* "basic_question"
    <<105,110,102,111,114,109,97,116,105,111,110,95,113,117,101,115,116,105,111,110>>  \* "information_question"
  >>

\* intent_mappings['agriculture'] (line 42..49)
intents_agriculture ==
  <<
    <<99,114,111,112,95,97,100,118,105,99,101>>,  \* "crop_advice"
    <<99,114,111,112,95,113,117,101,115,116,105,111,110>>,  \* "crop_question"
    <<102,97,114,109,105,110,103,95,97,100,118,105,99,101>>,  \* "farming_advice"
    <<115,111,105,108,95,113,117,101,115,116,105,111,110>>,  \* "soil_question"
    <<112,101,115,116,95,113,117,101,115,116,105,111,110>>,  \* "pest_question"
    <<105,114,114,105,103,97,116,105,111,110,95,113,117,101,115,116,105,111,110>>  \* "irrigation_question"
  >>

\* weather_keywords (lines 76..83)
weather_keywords ==
  <<
    <<119,101,97,116,104,101,114>>,  \* "weather"
    <<116,101,109,112,101,114,97,116,117,114,101>>,  \* "temperature"
    <<114,97,105,110>>,  \* "rain"
    <<114,97,105,110,102,97,108,108>>,  \* "rainfall"
    <<100,114,111,117,103,104,116>>,  \* "drought"
    <<102,108,111,111,100>>,  \* "flood"
    <<104,117,109,105,100,105,116,121>>,  \* "humidity"
    <<119,105,110,100>>,  \* "wind"
    <<99,108,105,109,97,116,101>>,  \* "climate"
    <<102,111,114,101,99,97,115,116>>,  \* "forecast"
    <<115,101,97,115,111,110,97,108>>,  \* "seasonal"
    <<109,111,110,115,111,111,110>>,  \* "monsoon"
    <<104,111,116>>,  \* "hot"
    <<99,111,108,100>>,  \* "cold"
    <<100,114,121>>,  \* "dry"
    <<119,101,116>>,  \* "wet"
    <<115,116,111,114,109>>,  \* "storm"
    <<99,121,99,108,111,110,101>>,  \* "cyclone"
    <<104,101,97,116,32,119,97,118,101>>,  \* "heat wave"
    <<102,114,111,115,116>>,  \* "frost"
    <<104,97,105,108>>,  \* "hail"
    <<115,110,111,119>>,  \* "snow"
    <<115,117,110,110,121>>,  \* "sunny"
    <<99,108,111,117,100,121>>,  \* "cloudy"
    <<111,118,101,114,99,97,115,116>>,  \* "overcast"
    <<109,97,117,115,97,109>>,  \* "mausam"
    <<98,97,97,114,105,115,104>>,  \* "baarish"
    <<2350,2380,2360,2350>>,  \* "\u092E\u094C\u0938\u092E"
    <<2340,2366,2346,2350,2366,2344>>,  \* "\u0924\u093E\u092A\u092E\u093E\u0928"
    <<2348,2366,2352,2367,2358>>,  \* "\u092C\u093E\u0930\u093F\u0936"
    <<2360,2370,2326,2366>>,  \* "\u0938\u0942\u0916\u093E"
    <<2348,2366,2338,2364>>,  \* "\u092C\u093E\u0922\u093C"
    <<2310,2352,2381,2342,2381,2352,2340,2366>>,  \* "\u0906\u0930\u094D\u0926\u094D\u0930\u0924\u093E"
    <<2361,2357,2366>>,  \* "\u0939\u0935\u093E"
    <<2332,2354,2357,2366,2351,2369>>,  \* "\u091C\u0932\u0935\u093E\u092F\u0941"
    <<2346,2370,2352,2381,2357,2366,2344,2369,2350,2366,2344>>,  \* "\u092A\u0942\u0930\u094D\u0935\u093E\u0928\u0941\u092E\u093E\u0928"
    <<2350,2366,2344,2360,2370,2344>>,  \* "\u092E\u093E\u0928\u0938\u0942\u0928"
    <<2327,2352,2381,2350>>,  \* "\u0917\u0930\u094D\u092E"
    <<2336,2306,2337,2366>>,  \* "\u0920\u0902\u0921\u093E"
    <<2360,2370,2326,2366>>,  \* "\u0938\u0942\u0916\u093E"
    <<2327,2368,2354,2366>>,  \* "\u0917\u0940\u0932\u093E"
    <<2340,2370,2347,2366,2344>>  \* "\u0924\u0942\u092B\u093E\u0928"
  >>

\* policy_keywords (lines 85..91)
policy_keywords ==
  <<
    <<112,111,108,105,99,121>>,  \* "policy"
    <<115,99,104,101,109,101>>,  \* "scheme"
    <<115,117,98,115,105,100,121>>,  \* "subsidy"
    <<108,111,97,110>>,  \* "loan"
    <<105,110,115,117,114,97,110,99,101>>,  \* "insurance"
    <<115,117,112,112,111,114,116>>,  \* "support"
    <<103,111,118,101,114,110,109,101,110,116>>,  \* "government"
    <<112,109,32,107,105,115,97,110>>,  \* "pm kisan"
    <<112,109,107,115,121>>,  \* "pmksy"
    <<115,111,105,108,32,104,101,97,108,116,104>>,  \* "soil health"
    <<109,97,110,100,105>>,  \* "mandi"
    <<112,114,111,99,117,114,101,109,101,110,116>>,  \* "procurement"
    <<109,115,112>>,  \* "msp"
    <<102,101,114,116,105,108,105,122,101,114>>,  \* "fertilizer"
    <<115,101,101,100>>,  \* "seed"
    <<101,113,117,105,112,109,101,110,116>>,  \* "equipment"
    <<103,117,105,100,101,108,105,110,101,115>>,  \* "guidelines"
    <<112,114,111,99,101,100,117,114,101>>,  \* "procedure"
    <<97,112,112,108,105,99,97,116,105,111,110>>,  \* "application"
    <<101,108,105,103,105,98,105,108,105,116,121>>,  \* "eligibility"
    <<98,101,110,101,102,105,116>>,  \* "benefit"
    <<97,115,115,105,115,116,97,110,99,101>>,  \* "assistance"
    <<102,117,110,100>>,  \* "fund"
    <<103,114,97,110,116>>,  \* "grant"
    <<99,101,114,116,105,102,105,99,97,116,101>>,  \* "certificate"
    <<121,111,106,97,110,97>>,  \* "yojana"
    <<115,97,114,107,97,114>>  \* "sarkar"
  >>

\* price_keywords (lines 93..97)
price_keywords ==
  <<
    <<112,114,105,99,101>>,  \* "price"
    <<114,97,116,101>>,  \* "rate"
    <<99,111,115,116>>,  \* "cost"
    <<119,111,114,116,104>>,  \* "worth"
    <<118,97,108,117,101>>,  \* "value"
    <<109,97,110,100,105>>,  \* "mandi"
    <<109,97,114,107,101,116>>,  \* "market"
    <<98,104,97,118>>,  \* "bhav"
    <<100,97,109>>,  \* "dam"
    <<109,117,108,121,97>>,  \* "mulya"
    <<107,101,101,109,97,116>>,  \* "keemat"
    <<114,117,112,101,101,115>>,  \* "rupees"
    <<114,115>>,  \* "rs"
    <<113,117,105,110,116,97,108>>,  \* "quintal"
    <<116,111,110>>,  \* "ton"
    <<107,103>>,  \* "kg"
    <<112,101,114>>,  \* "per"
    <<97,117,99,116,105,111,110>>,  \* "auction"
    <<2350,2370,2354,2381,2351>>,  \* "\u092E\u0942\u0932\u094D\u092F"
    <<2342,2352>>,  \* "\u0926\u0930"
    <<2325,2368,2350,2340>>,  \* "\u0915\u0940\u092E\u0924"
    <<2349,2366,2357>>,  \* "\u092D\u093E\u0935"
    <<2350,2306,2337,2368>>,  \* "\u092E\u0902\u0921\u0940"
    <<2348,2366,2332,2366,2352>>,  \* "\u092C\u093E\u091C\u093E\u0930"
    <<2352,2369,2346,2351,2375>>,  \* "\u0930\u0941\u092A\u092F\u0947"
    <<2325,2381,2357,2367,2306,2335,2354>>,  \* "\u0915\u094D\u0935\u093F\u0902\u091F\u0932"
    <<2325,2367,2354,2379>>  \* "\u0915\u093F\u0932\u094B"
  >>

\* technical_keywords (lines 99..102)
technical_keywords ==
  <<
    <<116,114,97,99,116,111,114>>,  \* "tractor"
    <<101,113,117,105,112,109,101,110,116>>,  \* "equipment"
    <<109,97,99,104,105,110,101>>,  \* "machine"
    <<115,121,115,116,101,109>>,  \* "system"
    <<116,101,99,104,110,111,108,111,103,121>>,  \* "technology"
    <<114,101,112,97,105,114>>,  \* "repair"
    <<109,97,105,110,116,101,110,97,110,99,101>>,  \* "maintenance"
    <<100,105,103,105,116,97,108>>,  \* "digital"
    <<97,117,116,111,109,97,116,101,100>>,  \* "automated"
    <<116,114,111,117,98,108,101,115,104,111,111,116>>,  \* "troubleshoot"
    <<102,105,120>>,  \* "fix"
    <<116,101,99,104,110,105,99,97,108>>  \* "technical"
  >>

\* general_keywords (lines 104..107)
general_keywords ==
  <<
    <<119,104,97,116,32,105,115>>,  \* "what is"
    <<116,101,108,108,32,109,101,32,97,98,111,117,116>>,  \* "tell me about"
    <<105,110,102,111,114,109,97,116,105,111,110,32,97,98,111,117,116>>,  \* "information about"
    <<103,117,105,100,101,32,102,111,114>>,  \* "guide for"
    <<98,97,115,105,99>>,  \* "basic"
    <<104,111,119,32,116,111,32,115,116,97,114,116>>,  \* "how to start"
    <<98,101,103,105,110,110,101,114>>,  \* "beginner"
    <<111,118,101,114,118,105,101,119>>,  \* "overview"
    <<105,110,116,114,111,100,117,99,116,105,111,110>>,  \* "introduction"
    <<103,101,110,101,114,97,108>>  \* "general"
  >>

\* agriculture_keywords (lines 109..115)
agriculture_keywords ==
  <<
    <<99,114,111,112>>,  \* "crop"
    <<102,97,114,109,105,110,103>>,  \* "farming"
    <<97,103,114,105,99,117,108,116,117,114,101>>,  \* "agriculture"
    <<115,111,105,108>>,  \* "soil"
    <<102,101,114,116,105,108,105,122,101,114>>,  \* "fertilizer"
    <<112,101,115,116,105,99,105,100,101>>,  \* "pesticide"
    <<105,114,114,105,103,97,116,105,111,110>>,  \* "irrigation"
    <<104,97,114,118,101,115,116>>,  \* "harvest"
    <<112,108,97,110,116,105,110,103>>,  \* "planting"
    <<115,101,101,100,105,110,103>>,  \* "seeding"
    <<112,101,115,116>>,  \* "pest"
    <<100,105,115,101,97,115,101>>,  \* "disease"
    <<121,105,101,108,100>>,  \* "yield"
    <<112,114,111,100,117,99,116,105,111,110>>,  \* "production"
    <<115,116,111,114,97,103,101>>,  \* "storage"
    <<116,114,97,110,115,112,111,114,116>>,  \* "transport"
    <<111,114,103,97,110,105,99>>,  \* "organic"
    <<116,114,97,100,105,116,105,111,110,97,108>>,  \* "traditional"
    <<109,111,100,101,114,110>>,  \* "modern"
    <<2347,2360,2354>>,  \* "\u092B\u0938\u0932"
    <<2326,2375,2340,2368>>,  \* "\u0916\u0947\u0924\u0940"
    <<2325,2371,2359,2367>>,  \* "\u0915\u0943\u0937\u093F"
    <<2350,2367,2335,2381,2335,2368>>,  \* "\u092E\u093F\u091F\u094D\u091F\u0940"
    <<2326,2366,2342>>,  \* "\u0916\u093E\u0926"
    <<2325,2368,2335,2344,2366,2358,2325>>,  \* "\u0915\u0940\u091F\u0928\u093E\u0936\u0915"
    <<2360,2367,2306,2330,2366,2312>>,  \* "\u0938\u093F\u0902\u091A\u093E\u0908"
    <<2347,2360,2354,32,2325,2335,2366,2312>>,  \* "\u092B\u0938\u0932 \u0915\u091F\u093E\u0908"
    <<2348,2369,2357,2366,2312>>,  \* "\u092C\u0941\u0935\u093E\u0908"
    <<2348,2368,2332>>,  \* "\u092C\u0940\u091C"
    <<2325,2368,2335>>,  \* "\u0915\u0940\u091F"
    <<2352,2379,2327>>,  \* "\u0930\u094B\u0917"
    <<2313,2346,2332>>,  \* "\u0909\u092A\u091C"
    <<2313,2340,2381,2346,2366,2342,2344>>,  \* "\u0909\u0924\u094D\u092A\u093E\u0926\u0928"
    <<2349,2306,2337,2366,2352,2339>>,  \* "\u092D\u0902\u0921\u093E\u0930\u0923"
    <<2346,2352,2367,2357,2361,2344>>  \* "\u092A\u0930\u093F\u0935\u0939\u0928"
  >>

Q_rain_now == <<114,97,105,110,32,110,111,119>>  \* "rain now"

Q_RAIN_now == <<82,65,73,78,32,110,111,119>>  \* "RAIN now"

Q_now_rain == <<110,111,119,32,114,97,105,110>>  \* "now rain"

Q_Mandi_price == <<77,97,110,100,105,32,112,114,105,99,101>>  \* "Mandi price"

Q_mandi_rain == <<109,97,110,100,105,32,114,97,105,110>>  \* "mandi rain"

Q_wheat_price_kanpur == <<119,104,101,97,116,32,112,114,105,99,101,32,107,97,110,112,117,114>>  \* "wheat price kanpur"

Q_market_rate == <<109,97,114,107,101,116,32,114,97,116,101>>  \* "market rate"

Q_tractor_fix == <<116,114,97,99,116,111,114,32,102,105,120>>  \* "tractor fix"

Q_what_is_farming == <<119,104,97,116,32,105,115,32,102,97,114,109,105,110,103>>  \* "what is farming"

Q_crop_yield == <<99,114,111,112,32,121,105,101,108,100>>  \* "crop yield"

Q_soil_ph == <<115,111,105,108,32,112,104>>  \* "soil ph"

Q_hello == <<104,101,108,108,111>>  \* "hello"

Q_organic == <<111,114,103,97,110,105,99>>  \* "organic"

Q_mausam_hi == <<2350,2380,2360,2350>>  \* "\u092E\u094C\u0938\u092E"

Q_city_rain == <<99,105,116,121,32,114,97,105,110>>  \* "city rain"

Q_crop_help == <<99,114,111,112,32,104,101,108,112>>  \* "crop help"
Q_market_rate_agra == <<109,97,114,107,101,116,32,114,97,116,101,32,97,103,114,97>>  \* "market rate agra"
Q_crop_for_soil == <<99,114,111,112,32,102,111,114,32,115,111,105,108>>  \* "crop for soil"
Q_help_me == <<104,101,108,112,32,109,101>>  \* "help me"

Queries ==
  {Q_rain_now, Q_RAIN_now, Q_now_rain, Q_Mandi_price,
   Q_mandi_rain, Q_wheat_price_kanpur, Q_market_rate, Q_tractor_fix,
   Q_what_is_farming, Q_crop_yield, Q_soil_ph, Q_hello,
   Q_organic, Q_mausam_hi, Q_city_rain, Q_crop_help,
   Q_market_rate_agra, Q_crop_for_soil, Q_help_me}

L_weather_query == <<119,101,97,116,104,101,114,95,113,117,101,114,121>>  \* "weather_query"

L_policy_query == <<112,111,108,105,99,121,95,113,117,101,114,121>>  \* "policy_query"

L_price_query == <<112,114,105,99,101,95,113,117,101,114,121>>  \* "price_query"

L_technical_support == <<116,101,99,104,110,105,99,97,108,95,115,117,112,112,111,114,116>>  \* "technical_support"

L_general_inquiry == <<103,101,110,101,114,97,108,95,105,110,113,117,105,114,121>>  \* "general_inquiry"

L_crop_advice == <<99,114,111,112,95,97,100,118,105,99,101>>  \* "crop_advice"

L_Weather_Query_caps == <<87,101,97,116,104,101,114,95,81,117,101,114,121>>  \* "Weather_Query"

L_crop_advice_price_query == <<99,114,111,112,95,97,100,118,105,99,101,43,112,114,105,99,101,95,113,117,101,114,121>>  \* "crop_advice+price_query"

L_greeting == <<103,114,101,101,116,105,110,103>>  \* "greeting"

Labels ==
  {L_weather_query, L_policy_query, L_price_query,
   L_technical_support, L_general_inquiry, L_crop_advice,
   L_Weather_Query_caps, L_crop_advice_price_query, L_greeting}
\* process_query: commands that bypass the setup gate (line 606)
setup_commands ==
  <<
    <<104,101,108,112>>,  \* "help"
    <<99,105,116,121>>,  \* "city"
    <<99,114,111,112>>,  \* "crop"
    <<108,97,110,103,117,97,103,101>>,  \* "language"
    <<115,116,97,116,115>>  \* "stats"
  >>

\* process_query: inline fallback, price words (line 617)
inline_price_words ==
  <<
    <<112,114,105,99,101>>,  \* "price"
    <<114,97,116,101>>,  \* "rate"
    <<99,111,115,116>>,  \* "cost"
    <<109,97,110,100,105>>,  \* "mandi"
    <<109,97,114,107,101,116>>,  \* "market"
    <<98,104,97,118>>  \* "bhav"
  >>

\* process_query: inline fallback, weather words (line 619)
inline_weather_words ==
  <<
    <<119,101,97,116,104,101,114>>,  \* "weather"
    <<116,101,109,112,101,114,97,116,117,114,101>>,  \* "temperature"
    <<114,97,105,110>>,  \* "rain"
    <<102,111,114,101,99,97,115,116>>  \* "forecast"
  >>

\* process_query: inline fallback, policy words (line 621)
inline_policy_words ==
  <<
    <<112,111,108,105,99,121>>,  \* "policy"
    <<115,99,104,101,109,101>>,  \* "scheme"
    <<103,111,118,101,114,110,109,101,110,116>>  \* "government"
  >>

\* _handle_agriculture_query: soil_keywords (line 806)
soil_keywords ==
  <<
    <<115,111,105,108>>,  \* "soil"
    <<112,104>>,  \* "ph"
    <<110,105,116,114,111,103,101,110>>,  \* "nitrogen"
    <<112,104,111,115,112,104,111,114,117,115>>,  \* "phosphorus"
    <<112,111,116,97,115,115,105,117,109>>,  \* "potassium"
    <<111,114,103,97,110,105,99,32,99,97,114,98,111,110>>  \* "organic carbon"
  >>

\* _handle_agriculture_query: crop_keywords (line 812)
crop_keywords ==
  <<
    <<99,114,111,112>>,  \* "crop"
    <<112,108,97,110,116>>,  \* "plant"
    <<103,114,111,119>>,  \* "grow"
    <<115,117,105,116,97,98,108,101>>,  \* "suitable"
    <<114,101,99,111,109,109,101,110,100>>  \* "recommend"
  >>

\* _extract_crop_and_location: crops_english (line 954)
crops_english ==
  <<
    <<119,104,101,97,116>>,  \* "wheat"
    <<114,105,99,101>>,  \* "rice"
    <<109,97,105,122,101>>,  \* "maize"
    <<99,111,116,116,111,110>>,  \* "cotton"
    <<112,111,116,97,116,111>>,  \* "potato"
    <<116,111,109,97,116,111>>,  \* "tomato"
    <<115,117,103,97,114,99,97,110,101>>,  \* "sugarcane"
    <<112,117,108,115,101,115>>,  \* "pulses"
    <<111,105,108,115,101,101,100,115>>  \* "oilseeds"
  >>

\* _extract_crop_and_location: crops_hindi (line 955)
crops_hindi ==
  <<
    <<2327,2375,2361,2370,2306>>,  \* "\u0917\u0947\u0939\u0942\u0902"
    <<2330,2366,2357,2354>>,  \* "\u091A\u093E\u0935\u0932"
    <<2350,2325,2381,2325,2366>>,  \* "\u092E\u0915\u094D\u0915\u093E"
    <<2325,2346,2366,2360>>,  \* "\u0915\u092A\u093E\u0938"
    <<2310,2354,2370>>,  \* "\u0906\u0932\u0942"
    <<2335,2350,2366,2335,2352>>,  \* "\u091F\u092E\u093E\u091F\u0930"
    <<2327,2344,2381,2344,2366>>,  \* "\u0917\u0928\u094D\u0928\u093E"
    <<2342,2366,2354,2375,2306>>,  \* "\u0926\u093E\u0932\u0947\u0902"
    <<2340,2367,2354,2361,2344>>  \* "\u0924\u093F\u0932\u0939\u0928"
  >>

\* _extract_crop_and_location: locations (line 973)
locations ==
  <<
    <<97,103,114,97>>,  \* "agra"
    <<107,97,110,110,97,117,106>>,  \* "kannauj"
    <<107,97,110,112,117,114>>,  \* "kanpur"
    <<108,117,99,107,110,111,119>>,  \* "lucknow"
    <<117,110,110,97,111>>,  \* "unnao"
    <<109,117,109,98,97,105>>,  \* "mumbai"
    <<100,101,108,104,105>>,  \* "delhi"
    <<98,97,110,103,97,108,111,114,101>>  \* "bangalore"
  >>

(***************************************************************************)
(* QueryClassifier                                                         *)
(***************************************************************************)

Categories == {"weather", "policy", "price", "technical", "agriculture", "general"}

\* self.intent_mappings, in the dict's insertion order
intent_mappings ==
  << [category |-> "weather",     intents |-> intents_weather],
     [category |-> "policy",      intents |-> intents_policy],
     [category |-> "price",       intents |-> intents_price],
     [category |-> "technical",   intents |-> intents_technical],
     [category |-> "general",     intents |-> intents_general],
     [category |-> "agriculture", intents |-> intents_agriculture] >>

\* Variant of _fallback_classification with the general and agriculture
\* branches exchanged
fallback_classification_agriculture_first(query) ==
  LET query_lower == Lower(query)
  IN  IF AnyIn(weather_keywords, query_lower) THEN "weather"
      ELSE IF AnyIn(policy_keywords, query_lower) THEN "policy"
      ELSE IF AnyIn(price_keywords, query_lower) THEN "price"
      ELSE IF AnyIn(technical_keywords, query_lower) THEN "technical"
      ELSE IF AnyIn(agriculture_keywords, query_lower) THEN "agriculture"
      ELSE "general"

\* Variant of _fallback_classification with the price branch before the
\* policy branch
fallback_classification_price_first(query) ==
  LET query_lower == Lower(query)
  IN  IF AnyIn(weather_keywords, query_lower) THEN "weather"
      ELSE IF AnyIn(price_keywords, query_lower) THEN "price"
      ELSE IF AnyIn(policy_keywords, query_lower) THEN "policy"
      ELSE IF AnyIn(technical_keywords, query_lower) THEN "technical"
      ELSE IF AnyIn(general_keywords, query_lower) THEN "general"
      ELSE IF AnyIn(agriculture_keywords, query_lower) THEN "agriculture"
      ELSE "general"

\* Variant of _fallback_classification that matches the query as typed,
\* without lower-casing it
fallback_classification_case_sensitive(query) ==
  IF AnyIn(weather_keywords, query) THEN "weather"
  ELSE IF AnyIn(policy_keywords, query) THEN "policy"
  ELSE IF AnyIn(price_keywords, query) THEN "price"
  ELSE IF AnyIn(technical_keywords, query) THEN "technical"
  ELSE IF AnyIn(general_keywords, query) THEN "general"
  ELSE IF AnyIn(agriculture_keywords, query) THEN "agriculture"
  ELSE "general"

\* _fallback_classification: keyword scores, then the if/elif chain
fallback_classification(query) ==
  LET query_lower       == Lower(query)
      weather_score     == Score(weather_keywords, query_lower)
      policy_score      == Score(policy_keywords, query_lower)
      price_score       == Score(price_keywords, query_lower)
      technical_score   == Score(technical_keywords, query_lower)
      general_score     == Score(general_keywords, query_lower)
      agriculture_score == Score(agriculture_keywords, query_lower)
  IN  IF weather_score > 0 THEN "weather"
      ELSE IF policy_score > 0 THEN "policy"
      ELSE IF price_score > 0 THEN "price"
      ELSE IF technical_score > 0 THEN "technical"
      ELSE IF general_score > 0 THEN "general"
      ELSE IF agriculture_score > 0 THEN "agriculture"
      ELSE "general"

\* What self.nlp_pipeline.process_query(query).primary_intent can do: give a
\* label, raise, or be None (so that .lower() raises AttributeError).
PipelineOutcomes ==
  {[kind |-> "label", label |-> l] : l \in Labels}
    \cup {[kind |-> k, label |-> << >>] : k \in {"raise", "none_intent"}}

\* The indices of the intent_mappings entries with an intent string inside
\* primary_intent
MappedEntries(primary_intent) ==
  {i \in 1..Len(intent_mappings) : AnyIn(intent_mappings[i].intents, primary_intent)}

\* Variant of classify_query without the except clause: what the pipeline
\* raises leaves the method
classify_query_no_except(query, po) ==
  IF po.kind = "label"
  THEN LET hits == MappedEntries(Lower(po.label))
       IN  IF hits # {}
           THEN [category |-> intent_mappings[Min(hits)].category,
                 path |-> "mapped", raised |-> FALSE]
           ELSE [category |-> fallback_classification(query),
                 path |-> "fallback_no_match", raised |-> FALSE]
  ELSE [category |-> NA, path |-> "raised", raised |-> TRUE]

\* Variant of classify_query whose loop keeps the last matching category
classify_query_last_match(query, po) ==
  IF po.kind = "label"
  THEN LET hits == MappedEntries(Lower(po.label))
       IN  IF hits # {}
           THEN [category |-> intent_mappings[CHOOSE i \in hits : \A j \in hits : j <= i].category,
                 path |-> "mapped", raised |-> FALSE]
           ELSE [category |-> fallback_classification(query),
                 path |-> "fallback_no_match", raised |-> FALSE]
  ELSE [category |-> fallback_classification(query),
        path |-> "fallback_except", raised |-> FALSE]

\* Variant of classify_query whose except clause answers "general"
classify_query_except_general(query, po) ==
  IF po.kind = "label"
  THEN LET hits == MappedEntries(Lower(po.label))
       IN  IF hits # {}
           THEN [category |-> intent_mappings[Min(hits)].category,
                 path |-> "mapped", raised |-> FALSE]
           ELSE [category |-> fallback_classification(query),
                 path |-> "fallback_no_match", raised |-> FALSE]
  ELSE [category |-> "general", path |-> "fallback_except", raised |-> FALSE]

\* classify_query: category returned, the path taken, and whether an
\* exception leaves the method.
classify_query(query, po) ==
  IF po.kind = "label"
  THEN LET primary_intent == Lower(po.label)
           hits == MappedEntries(primary_intent)
       IN  IF hits # {}
           THEN [category |-> intent_mappings[Min(hits)].category,
                 path |-> "mapped", raised |-> FALSE]
           ELSE [category |-> fallback_classification(query),
                 path |-> "fallback_no_match", raised |-> FALSE]
  ELSE \* except Exception: the pipeline raised, or primary_intent was None
       [category |-> fallback_classification(query),
        path |-> "fallback_except", raised |-> FALSE]

(***************************************************************************)
(* Session state of AgriculturalAdvisorBot                                 *)
(***************************************************************************)

\* The texts the session commands are called with; set_user_city takes any
\* text, the empty one too
Cities == {T_Pune, << >>}
Crops == {T_Wheat}
Languages == {T_English, T_Hindi}

\* No database file, or a file without tables
NoDb == [mandi_prices |-> "missing", soil_health |-> "missing"]

\* No init_db call is under way.  Of a call under way: the to_sql it is in
\* (pc) and how far that is (at), its CSV files, and whether it has been
\* alone: no other connection has committed a write since it began
NoInitRun ==
  [pc |-> "idle", at |-> "begin", price_csv |-> << >>, soil_csv |-> << >>,
   alone |-> TRUE]

\* No sqlite_cli run has a connection open
NoConn == [open |-> FALSE, in_tx |-> FALSE, view |-> NoDb, lines |-> 0]

Init ==
  /\ user_city = None
  /\ user_crop = None
  /\ user_language = T_English
  /\ is_initialized = FALSE
  /\ api_key \in BOOLEAN
  /\ policy_loaded \in BOOLEAN
  /\ db = NoDb
  /\ init_run = NoInitRun
  /\ stats_run = << >>
  /\ cli_conn = NoConn
  /\ last = [op |-> "init"]

\* is_user_initialized
is_user_initialized == is_initialized /\ user_city # None

set_user_city(city) ==
  /\ user_city' = city
  /\ is_initialized' = TRUE
  /\ last' = [op |-> "set_user_city", arg |-> city]
  /\ UNCHANGED <<user_crop, user_language, api_key, policy_loaded, store>>

\* set_user_crop that also marks the user as initialized
set_user_crop_initializes(crop) ==
  /\ user_crop' = crop
  /\ is_initialized' = TRUE
  /\ last' = [op |-> "set_user_crop", arg |-> crop]
  /\ UNCHANGED <<user_city, user_language, api_key, policy_loaded, store>>

set_user_crop(crop) ==
  /\ user_crop' = crop
  /\ last' = [op |-> "set_user_crop", arg |-> crop]
  /\ UNCHANGED <<user_city, user_language, is_initialized, api_key, policy_loaded, store>>

\* set_user_language that starts the setup over
set_user_language_restarts_setup(language) ==
  /\ user_language' = language
  /\ is_initialized' = FALSE
  /\ last' = [op |-> "set_user_language", arg |-> language]
  /\ UNCHANGED <<user_city, user_crop, api_key, policy_loaded, store>>

set_user_language(language) ==
  /\ user_language' = language
  /\ last' = [op |-> "set_user_language", arg |-> language]
  /\ UNCHANGED <<user_city, user_crop, is_initialized, api_key, policy_loaded, store>>

SetUserCity == \E city \in Cities : set_user_city(city)
SetUserCrop == \E crop \in Crops : set_user_crop(crop)
SetUserLanguage == \E language \in Languages : set_user_language(language)

(***************************************************************************)
(* GroqAgriculturalAdvisor: the LLM client                                 *)
(***************************************************************************)

\* A returned text is a sequence of segments.  These are the segments that
\* begin with the cross mark.
CrossSegments ==
  {"X_groq_api_key_not_found", "X_error_generating_advice", "X_error_generating_sql",
   "X_could_not_find_weather_data", "X_could_not_fetch_weather_data",
   "X_error_processing_weather_data", "X_weather_data_unavailable",
   "X_weather_service_unavailable", "X_error_processing_weather_query",
   "X_soil_error", "X_error_retrieving_soil_data", "X_error_retrieving_crop_data",
   "X_price_error", "X_error_retrieving_price_information", "X_no_price_data_available"}

StartsWithCross(text) == Len(text) > 0 /\ text[1] \in CrossSegments
ContainsCross(text) == \E i \in 1..Len(text) : text[i] \in CrossSegments

\* _detect_language: re.search(r'[\u0900-\u097F]', text)
detect_language(text) ==
  IF \E i \in 1..Len(text) : text[i] \in 2304..2431 THEN T_Hindi ELSE T_English

\* language.lower() == "hindi"
is_hindi(language) == Lower(language) = <<104,105,110,100,105>>

\* _get_language_system_message(language, context)
get_language_system_message(language, context) ==
  IF is_hindi(language)
  THEN IF context = "weather" THEN "sys_hindi_weather"
       ELSE IF context = "price" THEN "sys_hindi_price"
       ELSE "sys_hindi_general"
  ELSE IF context = "weather" THEN "sys_english_weather"
       ELSE IF context = "price" THEN "sys_english_price"
       ELSE "sys_english_general"

GenerateMethods ==
  {"generate_weather_advice", "generate_weather_advice_comprehensive",
   "generate_sql", "generate_general_advice", "generate_price_advice"}

\* What requests.post / raise_for_status / response.json()[...] can do
HttpOutcomes == {"ok", "post_raises", "status_raises", "parse_raises"}

\* The language the method works with after its detection step
effective_language(query, language) ==
  IF language = T_English /\ detect_language(query) = T_Hindi THEN T_Hindi ELSE language

\* The "system" message of the payload each method posts
payload_system_message(method, query, language) ==
  CASE method = "generate_weather_advice" -> "sys_english_weather"
    [] method = "generate_weather_advice_comprehensive" -> "sys_english_weather"
    [] method = "generate_sql" -> "sys_sql_generator"
    [] method = "generate_general_advice" ->
         get_language_system_message(effective_language(query, language), "general")
    [] method = "generate_price_advice" ->
         get_language_system_message(effective_language(query, language), "price")

\* The text of the except branch of each method
error_text(method) ==
  IF method = "generate_sql" THEN <<"X_error_generating_sql">>
  ELSE <<"X_error_generating_advice">>

\* A generate_* call that posts without looking for the API key
generate_without_key_check(method, query, language, args_ok, http) ==
  IF ~args_ok
  THEN [text |-> error_text(method), posts |-> << >>, raised |-> FALSE]
  ELSE LET post == [system |-> payload_system_message(method, query, language)]
       IN  IF http = "ok" /\ api_key
           THEN [text |-> <<"llm_text">>, posts |-> <<post>>, raised |-> FALSE]
           ELSE [text |-> error_text(method), posts |-> <<post>>, raised |-> FALSE]

\* One generate_* call.  args_ok: building the prompt from the arguments does
\* not raise (it can for the weather methods, which index their arguments).
\* http: what the POST, its status check and the parsing of its body do.
\* Result: the text returned, the requests sent, whether an exception leaves.
generate(method, query, language, args_ok, http) ==
  IF ~api_key
  THEN [text |-> <<"X_groq_api_key_not_found">>, posts |-> << >>, raised |-> FALSE]
  ELSE IF ~args_ok
  THEN [text |-> error_text(method), posts |-> << >>, raised |-> FALSE]
  ELSE LET post == [system |-> payload_system_message(method, query, language)]
       IN  IF http = "ok"
           THEN [text |-> <<"llm_text">>, posts |-> <<post>>, raised |-> FALSE]
           ELSE [text |-> error_text(method), posts |-> <<post>>, raised |-> FALSE]

(***************************************************************************)
(* AgriculturalAdvisorBot: what process_query and its handlers compute     *)
(* from the text of the query alone                                        *)
(***************************************************************************)

\* any(cmd in query.lower() for cmd in ['help', 'city', 'crop', 'language', 'stats'])
has_setup_command(query) == AnyIn(setup_commands, Lower(query))

\* any(keyword in query_lower for keyword in soil_keywords)
has_soil_keyword(query) == AnyIn(soil_keywords, Lower(query))

\* any(keyword in query_lower for keyword in crop_keywords)
has_crop_keyword(query) == AnyIn(crop_keywords, Lower(query))

\* The inline fallback testing the weather words first
inline_fallback_weather_first(query) ==
  LET query_lower == Lower(query)
  IN  IF AnyIn(inline_weather_words, query_lower) THEN "weather"
      ELSE IF AnyIn(inline_price_words, query_lower) THEN "price"
      ELSE IF AnyIn(inline_policy_words, query_lower) THEN "policy"
      ELSE "general"

\* The inline fallback of process_query's except branch
inline_fallback(query) ==
  LET query_lower == Lower(query)
  IN  IF AnyIn(inline_price_words, query_lower) THEN "price"
      ELSE IF AnyIn(inline_weather_words, query_lower) THEN "weather"
      ELSE IF AnyIn(inline_policy_words, query_lower) THEN "policy"
      ELSE "general"

\* c.title() of crops_english, and loc.title() of locations
crops_title ==
  <<
    <<87,104,101,97,116>>,  \* "Wheat"
    <<82,105,99,101>>,  \* "Rice"
    <<77,97,105,122,101>>,  \* "Maize"
    <<67,111,116,116,111,110>>,  \* "Cotton"
    <<80,111,116,97,116,111>>,  \* "Potato"
    <<84,111,109,97,116,111>>,  \* "Tomato"
    <<83,117,103,97,114,99,97,110,101>>,  \* "Sugarcane"
    <<80,117,108,115,101,115>>,  \* "Pulses"
    <<79,105,108,115,101,101,100,115>>  \* "Oilseeds"
  >>
locations_title ==
  <<
    <<65,103,114,97>>,  \* "Agra"
    <<75,97,110,110,97,117,106>>,  \* "Kannauj"
    <<75,97,110,112,117,114>>,  \* "Kanpur"
    <<76,117,99,107,110,111,119>>,  \* "Lucknow"
    <<85,110,110,97,111>>,  \* "Unnao"
    <<77,117,109,98,97,105>>,  \* "Mumbai"
    <<68,101,108,104,105>>,  \* "Delhi"
    <<66,97,110,103,97,108,111,114,101>>  \* "Bangalore"
  >>

StartsWith(s, p) == Len(p) <= Len(s) /\ SubSeq(s, 1, Len(p)) = p
EndsWith(s, p) == Len(p) <= Len(s) /\ SubSeq(s, Len(s) - Len(p) + 1, Len(s)) = p

\* _extract_crop_and_location
extract_crop_and_location(query) ==
  LET query_lower == Lower(query)
      all_crops == crops_english \o crops_hindi
      padded == <<32>> \o query_lower \o <<32>>
      crop_hits == {i \in 1..Len(all_crops) :
                      \/ Contains(<<32>> \o all_crops[i] \o <<32>>, padded)
                      \/ StartsWith(query_lower, all_crops[i])
                      \/ EndsWith(query_lower, all_crops[i])}
      loc_hits == {i \in 1..Len(locations) : Contains(locations[i], query_lower)}
  IN  [crop |-> IF crop_hits = {} THEN None
                ELSE LET i == Min(crop_hits)
                     IN  IF i > Len(crops_english)
                         THEN crops_title[i - Len(crops_english)]
                         ELSE crops_title[i],
       location |-> IF loc_hits = {} THEN None ELSE locations_title[Min(loc_hits)]]

\* The text functions above, evaluated once for each text of Queries
text_facts(query) ==
  [setup_command |-> has_setup_command(query),
   soil_keyword |-> has_soil_keyword(query),
   crop_keyword |-> has_crop_keyword(query),
   inline_fallback |-> inline_fallback(query),
   extract |-> extract_crop_and_location(query)]

TextFacts == [q \in Queries |-> text_facts(q)]

Facts(query) == IF query \in Queries THEN TextFacts[query] ELSE text_facts(query)

\* classify_query, evaluated once for each text and pipeline outcome
Classifications == [q \in Queries, po \in PipelineOutcomes |-> classify_query(q, po)]

Classify(query, po) ==
  IF query \in Queries /\ po \in PipelineOutcomes
  THEN Classifications[query, po] ELSE classify_query(query, po)

(***************************************************************************)
(* AgriculturalAdvisorBot: the handlers                                    *)
(*                                                                         *)
(* A handler yields [response, calls, raised]: the text returned, the calls*)
(* made to the collaborators in order, and whether an exception leaves it. *)
(***************************************************************************)

Call(fn, arg) == [fn |-> fn, arg |-> arg]

\* A requests.post to the LLM service, with the "system" message it carries
Post(system) == [fn |-> "http_post", system |-> system]

Ret(response, calls) == [response |-> response, calls |-> calls, raised |-> FALSE]

\* The calls of one generate_* invocation: the method, then its POSTs
gen_calls(method, g) ==
  <<Call(method, NoArg)>> \o [i \in 1..Len(g.posts) |-> Post(g.posts[i].system)]

\* What weather_service.get_comprehensive_weather_report(city) can do
WeatherOutcomes ==
  {"ok",                \* a report with location, history, forecast, insights
   "ok_no_location",    \* a report without the 'location' entry
   "error_not_found",   \* {'error': 'Could not find location ...'}
   "error_other",       \* {'error': <another text>}
   "ok_partial_location",  \* a report whose 'location' has a name only
   "bad_report",        \* a value without .get and without 'error' inside
   "raise_division",    \* raises, the text has 'division by zero'
   "raise_timeout",     \* raises, the text has 'timeout' or 'connection'
                        \* (and not 'division by zero')
   "raise_other"}       \* raises, another text

\* What a data_manager lookup can do: a result, {'error': ...}, or raise
DmOutcomes == {"ok", "error", "raise"}

\* What data_manager.get_soil_health can do for _handle_soil_health_query,
\* which reads soil_result['formatted'] after the LLM call: the outcomes above,
\* or a result that has the soil values but no 'formatted' entry
SoilOutcomes == DmOutcomes \cup {"ok_no_formatted"}

\* What data_manager.get_available_crops can do: a list of names, a list
\* with a name in Devanagari, [], or raise
CropsOutcomes == {"some", "some_devanagari", "empty", "raise"}

\* The names of a list that get_available_crops gave, as one text
crop_names(outcome) ==
  CASE outcome = "some" -> T_Wheat
    [] outcome = "some_devanagari" -> crops_hindi[1]
    [] OTHER -> << >>

\* What policy_chatbot.ask_question_with_groq can do
PolicyOutcomes == {"ok", "raise"}

\* _handle_weather_query answering a report with 'error' by general advice
handle_weather_query_error_advice(query, env) ==
  IF ~is_user_initialized
  THEN Ret(<<"intent_weather", "please_complete_setup">>, << >>)
  ELSE LET ws == <<Call("get_comprehensive_weather_report", user_city)>>
           a == generate("generate_general_advice", query, user_language, TRUE, env.http)
       IN  CASE env.weather \in {"error_not_found", "error_other"} ->
                  Ret(<<"X_could_not_fetch_weather_data">> \o a.text,
                      ws \o gen_calls("generate_general_advice", a))
             [] env.weather = "bad_report" ->
                  Ret(<<"X_error_processing_weather_data">>, ws)
             [] env.weather = "raise_division" ->
                  Ret(<<"intent_weather", "X_weather_data_unavailable">>, ws)
             [] env.weather = "raise_timeout" ->
                  Ret(<<"intent_weather", "X_weather_service_unavailable">>, ws)
             [] env.weather = "raise_other" ->
                  Ret(<<"intent_weather", "X_error_processing_weather_query">>, ws)
             [] env.weather = "ok" ->
                  LET g == generate("generate_weather_advice_comprehensive", query,
                                    user_language, TRUE, env.http)
                  IN  Ret(<<"intent_weather", "weather_report", "ai_advice">>
                            \o g.text \o <<"sources_weather">>,
                          ws \o gen_calls("generate_weather_advice_comprehensive", g))
             [] env.weather = "ok_no_location" ->
                  LET g == generate("generate_weather_advice_comprehensive", query,
                                    user_language, FALSE, env.http)
                  IN  Ret(<<"intent_weather", "X_error_processing_weather_query">>,
                          ws \o gen_calls("generate_weather_advice_comprehensive", g))
             [] env.weather = "ok_partial_location" ->
                  \* location_info has 'name' but no 'state': the advisor's prompt
                  \* raises KeyError (caught there, nothing is posted)
                  LET g == generate("generate_weather_advice_comprehensive", query,
                                    user_language, FALSE, env.http)
                  IN  Ret(<<"intent_weather", "weather_report", "ai_advice">>
                            \o g.text \o <<"sources_weather">>,
                          ws \o gen_calls("generate_weather_advice_comprehensive", g))

\* _handle_weather_query without its test of is_user_initialized
handle_weather_query_no_init_check(query, env) ==
  LET ws == <<Call("get_comprehensive_weather_report", user_city)>>
  IN  CASE env.weather = "error_not_found" ->
             Ret(<<"X_could_not_find_weather_data">>, ws)
        [] env.weather = "bad_report" ->
             Ret(<<"X_error_processing_weather_data">>, ws)
        [] env.weather = "raise_division" ->
             Ret(<<"intent_weather", "X_weather_data_unavailable">>, ws)
        [] env.weather = "raise_timeout" ->
             Ret(<<"intent_weather", "X_weather_service_unavailable">>, ws)
        [] env.weather = "raise_other" ->
             Ret(<<"intent_weather", "X_error_processing_weather_query">>, ws)
        [] env.weather = "ok" ->
             LET g == generate("generate_weather_advice_comprehensive", query,
                               user_language, TRUE, env.http)
             IN  Ret(<<"intent_weather", "weather_report", "ai_advice">>
                       \o g.text \o <<"sources_weather">>,
                     ws \o gen_calls("generate_weather_advice_comprehensive", g))
        [] env.weather = "ok_no_location" ->
             LET g == generate("generate_weather_advice_comprehensive", query,
                               user_language, FALSE, env.http)
             IN  Ret(<<"intent_weather", "X_error_processing_weather_query">>,
                     ws \o gen_calls("generate_weather_advice_comprehensive", g))
        [] env.weather = "ok_partial_location" ->
             \* location_info has 'name' but no 'state': the advisor's prompt
             \* raises KeyError (caught there, nothing is posted)
             LET g == generate("generate_weather_advice_comprehensive", query,
                               user_language, FALSE, env.http)
             IN  Ret(<<"intent_weather", "weather_report", "ai_advice">>
                       \o g.text \o <<"sources_weather">>,
                     ws \o gen_calls("generate_weather_advice_comprehensive", g))
        [] OTHER ->
             Ret(<<"X_could_not_fetch_weather_data">>, ws)

\* _handle_weather_query
handle_weather_query(query, env) ==
  IF ~is_user_initialized
  THEN Ret(<<"intent_weather", "please_complete_setup">>, << >>)
  ELSE LET ws == <<Call("get_comprehensive_weather_report", user_city)>>
       IN  CASE env.weather = "error_not_found" ->
                  Ret(<<"X_could_not_find_weather_data">>, ws)
             [] env.weather = "error_other" ->
                  Ret(<<"X_could_not_fetch_weather_data">>, ws)
             [] env.weather = "bad_report" ->
                  Ret(<<"X_error_processing_weather_data">>, ws)
             [] env.weather = "raise_division" ->
                  Ret(<<"intent_weather", "X_weather_data_unavailable">>, ws)
             [] env.weather = "raise_timeout" ->
                  Ret(<<"intent_weather", "X_weather_service_unavailable">>, ws)
             [] env.weather = "raise_other" ->
                  Ret(<<"intent_weather", "X_error_processing_weather_query">>, ws)
             [] env.weather = "ok" ->
                  LET g == generate("generate_weather_advice_comprehensive", query,
                                    user_language, TRUE, env.http)
                  IN  Ret(<<"intent_weather", "weather_report", "ai_advice">>
                            \o g.text \o <<"sources_weather">>,
                          ws \o gen_calls("generate_weather_advice_comprehensive", g))
             [] env.weather = "ok_no_location" ->
                  \* location_info is {}: the advisor's prompt raises KeyError
                  \* (caught there), then location_info['name'] raises here
                  LET g == generate("generate_weather_advice_comprehensive", query,
                                    user_language, FALSE, env.http)
                  IN  Ret(<<"intent_weather", "X_error_processing_weather_query">>,
                          ws \o gen_calls("generate_weather_advice_comprehensive", g))
             [] env.weather = "ok_partial_location" ->
                  \* location_info has 'name' but no 'state': the advisor's prompt
                  \* raises KeyError (caught there, nothing is posted)
                  LET g == generate("generate_weather_advice_comprehensive", query,
                                    user_language, FALSE, env.http)
                  IN  Ret(<<"intent_weather", "weather_report", "ai_advice">>
                            \o g.text \o <<"sources_weather">>,
                          ws \o gen_calls("generate_weather_advice_comprehensive", g))

\* self.groq_advisor.generate_general_advice(text, self.user_language), as the
\* handlers use it: the text returned and the calls made
general_advice(text, env) ==
  LET g == generate("generate_general_advice", text, user_language, TRUE, env.http)
  IN  [text |-> g.text, calls |-> gen_calls("generate_general_advice", g)]

\* _handle_policy_query without its test of policy_chatbot.is_loaded
handle_policy_query_no_loaded_check(query, env) ==
  LET ask == <<Call("ask_question_with_groq", NoArg)>>
  IN  IF env.policy = "ok"
      THEN Ret(<<"intent_policy", "policy_response", "sources_policy">>, ask)
      ELSE LET a == general_advice(query, env)
           IN  Ret(<<"intent_policy">> \o a.text, ask \o a.calls)

\* _handle_policy_query
handle_policy_query(query, env) ==
  IF ~policy_loaded
  THEN LET a == general_advice(query, env)
       IN  Ret(<<"intent_policy">> \o a.text, a.calls)
  ELSE LET ask == <<Call("ask_question_with_groq", NoArg)>>
       IN  IF env.policy = "ok"
           THEN Ret(<<"intent_policy", "policy_response", "sources_policy">>, ask)
           ELSE LET a == general_advice(query, env)
                IN  Ret(<<"intent_policy">> \o a.text, ask \o a.calls)

\* location_mapping.get(location.lower(), location)
search_location(location) ==
  LET key == Lower(location)
  IN  CASE key = <<107,97,110,112,117,114>> ->  \* 'kanpur': 'Kanpur Nagar'
             <<75,97,110,112,117,114,32,78,97,103,97,114>>
        [] key = <<107,97,110,110,97,117,106>> ->  \* 'kannauj': 'Kannauj'
             <<75,97,110,110,97,117,106>>
        [] key = <<97,103,114,97>> ->  \* 'agra': 'Agra'
             <<65,103,114,97>>
        [] key = <<117,110,110,97,111>> ->  \* 'unnao': 'Unnao'
             <<85,110,110,97,111>>
        [] key = <<108,117,99,107,110,111,119>> ->  \* 'lucknow': 'Lucknow'
             <<76,117,99,107,110,111,119>>
        [] OTHER -> location

\* self.user_city or "Kanpur": None and the empty text are falsy
default_location ==
  IF user_city = None \/ user_city = << >> THEN T_Kanpur ELSE user_city

\* _handle_soil_health_query without its try/except
handle_soil_health_query_no_except(query, env) ==
  LET location == default_location
      dm == <<Call("get_soil_health", search_location(location))>>
      a == general_advice(query, env)
  IN  CASE env.soil = "error" ->
             Ret(<<"X_soil_error", "general_soil_advice">> \o a.text, dm \o a.calls)
        [] env.soil = "ok" ->
             Ret(<<"soil_health_data", "soil_management_advice">> \o a.text
                   \o <<"sources_soil">>, dm \o a.calls)
        [] env.soil = "raise" ->
             [response |-> << >>, calls |-> dm, raised |-> TRUE]
        [] env.soil = "ok_no_formatted" ->
             [response |-> << >>, calls |-> dm \o a.calls, raised |-> TRUE]

\* _handle_soil_health_query
handle_soil_health_query(query, env) ==
  LET location == default_location
      dm == <<Call("get_soil_health", search_location(location))>>
      a == general_advice(query, env)
  IN  CASE env.soil = "error" ->
             Ret(<<"X_soil_error", "general_soil_advice">> \o a.text, dm \o a.calls)
        [] env.soil = "ok" ->
             Ret(<<"soil_health_data", "soil_management_advice">> \o a.text
                   \o <<"sources_soil">>, dm \o a.calls)
        [] env.soil = "raise" ->
             Ret(<<"X_error_retrieving_soil_data", "general_soil_advice">> \o a.text,
                 dm \o a.calls)
        [] env.soil = "ok_no_formatted" ->
             \* the KeyError is raised after the first LLM call; the except
             \* branch calls the LLM again
             Ret(<<"X_error_retrieving_soil_data", "general_soil_advice">> \o a.text,
                 dm \o a.calls \o a.calls)

\* The text _handle_crop_recommendation_query asks the LLM with (lines
\* 895-897): the query, and crop_info when the list of crops is not empty,
\* which names the location and the crops.  The words around them and the
\* numbers of soil_info are ASCII.
crop_recommendation_text(query, location, crops) ==
  IF crops \in {"some", "some_devanagari"}
  THEN query \o <<46, 32>> \o location \o <<58, 32>> \o crop_names(crops)
  ELSE query

\* The answer of _handle_crop_recommendation_query's try branch, a being what
\* the LLM call gave: each of the two lines is there when the list of crops
\* is not empty and when soil_result has no 'error'
crop_recommendation_answer(env, calls, a) ==
  Ret(<<"crop_information">>
        \o (IF env.crops \in {"some", "some_devanagari"}
            THEN <<"available_crops">> ELSE << >>)
        \o (IF env.soil # "error" THEN <<"soil_conditions">> ELSE << >>)
        \o <<"crop_recommendations">> \o a.text \o <<"sources_crop">>,
      calls \o a.calls)

\* The answer of its except branch, which asks the LLM with the query alone
crop_recommendation_except(calls, a) ==
  Ret(<<"X_error_retrieving_crop_data", "general_crop_advice">> \o a.text,
      calls \o a.calls)

\* _handle_crop_recommendation_query
handle_crop_recommendation_query(query, env) ==
  IF env.soil = "raise"
  THEN crop_recommendation_except(
         <<Call("get_soil_health", search_location(default_location))>>,
         general_advice(query, env))
  ELSE IF env.crops = "raise"
  THEN crop_recommendation_except(
         <<Call("get_soil_health", search_location(default_location)),
           Call("get_available_crops", default_location)>>,
         general_advice(query, env))
  ELSE crop_recommendation_answer(
         env,
         <<Call("get_soil_health", search_location(default_location)),
           Call("get_available_crops", default_location)>>,
         general_advice(crop_recommendation_text(query, default_location, env.crops),
                        env))

\* _handle_agriculture_query testing the crop keywords first
handle_agriculture_query_crop_first(query, env) ==
  IF Facts(query).crop_keyword
  THEN LET r == handle_crop_recommendation_query(query, env)
       IN  [r EXCEPT !.response = <<"intent_agriculture">> \o @]
  ELSE IF Facts(query).soil_keyword
  THEN LET r == handle_soil_health_query(query, env)
       IN  [r EXCEPT !.response = <<"intent_agriculture">> \o @]
  ELSE LET a == general_advice(query, env)
       IN  Ret(<<"intent_agriculture">> \o a.text \o <<"sources_ai">>, a.calls)

\* _handle_agriculture_query
handle_agriculture_query(query, env) ==
  IF Facts(query).soil_keyword
  THEN LET r == handle_soil_health_query(query, env)
       IN  [r EXCEPT !.response = <<"intent_agriculture">> \o @]
  ELSE IF Facts(query).crop_keyword
  THEN LET r == handle_crop_recommendation_query(query, env)
       IN  [r EXCEPT !.response = <<"intent_agriculture">> \o @]
  ELSE LET a == general_advice(query, env)
       IN  Ret(<<"intent_agriculture">> \o a.text \o <<"sources_ai">>, a.calls)

\* _get_crop_price_info
get_crop_price_info(crop, location, env) ==
  LET latest == <<Call("get_latest_price", location)>>
      trends == <<Call("get_price_trends", location)>>
  IN  CASE env.price = "raise" ->
             [text |-> <<"X_error_retrieving_price_information">>, calls |-> latest]
        [] env.price = "error" ->
             [text |-> <<"X_price_error">>, calls |-> latest]
        [] env.price = "ok" /\ env.trend = "raise" ->
             [text |-> <<"X_error_retrieving_price_information">>,
              calls |-> latest \o trends]
        [] env.price = "ok" /\ env.trend = "error" ->
             [text |-> <<"crop_prices", "latest_price">>, calls |-> latest \o trends]
        [] env.price = "ok" /\ env.trend = "ok" ->
             [text |-> <<"crop_prices", "latest_price", "price_trend">>,
              calls |-> latest \o trends]

\* _get_general_price_info
get_general_price_info(location, env) ==
  LET crops == <<Call("get_available_crops", location)>>
  IN  CASE env.crops = "raise" ->
             [text |-> <<"X_error_retrieving_price_information">>, calls |-> crops]
        [] env.crops = "empty" ->
             [text |-> <<"X_no_price_data_available">>, calls |-> crops]
        [] env.crops \in {"some", "some_devanagari"} ->
             [text |-> <<"available_crops", "tip">>, calls |-> crops]

\* _handle_price_query asking the LLM for price advice also without a crop
handle_price_query_always_advice(query, env) ==
  LET ex == Facts(query).extract
      location == IF ex.location # None THEN ex.location ELSE default_location
      g == generate("generate_price_advice", query, user_language, TRUE, env.http)
      info == IF ex.crop = None THEN get_general_price_info(location, env)
              ELSE get_crop_price_info(ex.crop, location, env)
  IN  Ret(<<"intent_price", "price_information">> \o info.text
            \o <<"ai_market_insights">> \o g.text \o <<"sources_price">>,
          info.calls \o gen_calls("generate_price_advice", g))

\* _handle_price_query running LLM-written SQL in place of the lookups
handle_price_query_generate_sql(query, env) ==
  LET g == generate("generate_sql", query, user_language, TRUE, env.http)
  IN  Ret(<<"intent_price", "price_information">> \o g.text \o <<"sources_price">>,
          gen_calls("generate_sql", g) \o <<Call("execute_sql", NoArg)>>)

\* _handle_price_query asking the LLM before it looks the prices up
handle_price_query_advice_first(query, env) ==
  LET ex == Facts(query).extract
      location == IF ex.location # None THEN ex.location ELSE default_location
  IN  IF ex.crop = None
      THEN LET info == get_general_price_info(location, env)
           IN  Ret(<<"intent_price">> \o info.text, info.calls)
      ELSE LET info == get_crop_price_info(ex.crop, location, env)
               g == generate("generate_price_advice", query, user_language, TRUE, env.http)
           IN  Ret(<<"intent_price", "price_information">> \o info.text
                     \o <<"ai_market_insights">> \o g.text \o <<"sources_price">>,
                   gen_calls("generate_price_advice", g) \o info.calls)

\* _handle_price_query
handle_price_query(query, env) ==
  LET ex == Facts(query).extract
      location == IF ex.location # None THEN ex.location ELSE default_location
  IN  IF ex.crop = None
      THEN LET info == get_general_price_info(location, env)
           IN  Ret(<<"intent_price">> \o info.text, info.calls)
      ELSE LET info == get_crop_price_info(ex.crop, location, env)
               g == generate("generate_price_advice", query, user_language, TRUE, env.http)
           IN  Ret(<<"intent_price", "price_information">> \o info.text
                     \o <<"ai_market_insights">> \o g.text \o <<"sources_price">>,
                   info.calls \o gen_calls("generate_price_advice", g))

\* _handle_technical_query
handle_technical_query(query, env) ==
  LET a == general_advice(query, env)
  IN  Ret(<<"intent_technical">> \o a.text \o <<"sources_ai">>, a.calls)

\* _handle_general_query
handle_general_query(query, env) ==
  LET a == general_advice(query, env)
  IN  Ret(<<"intent_general">> \o a.text \o <<"sources_ai">>, a.calls)

(***************************************************************************)
(* AgriculturalAdvisorBot.process_query                                    *)
(***************************************************************************)

NoPipeline == [kind |-> NA, label |-> << >>]
NoCls == [category |-> NA, path |-> NA, raised |-> FALSE]

\* The pipeline outcomes process_query is run with
BotPipelineOutcomes ==
  {[kind |-> "label", label |-> L_greeting],
   [kind |-> "label", label |-> L_crop_advice]}

\* self.classifier.classify_query: the QueryClassifier over one pipeline
\* outcome, or a replaced classifier that raises or returns another value.
ClassifierModes ==
  {[kind |-> "pipeline", po |-> po] : po \in BotPipelineOutcomes}
    \cup {[kind |-> k, po |-> NoPipeline] : k \in {"stub_raises", "stub_other"}}

\* dispatch without the branch of "technical"
dispatch_without_technical(query_type) ==
  CASE query_type = "weather" -> "handle_weather_query"
    [] query_type = "policy" -> "handle_policy_query"
    [] query_type = "price" -> "handle_price_query"
    [] query_type = "general" -> "handle_general_query"
    [] query_type = "agriculture" -> "handle_agriculture_query"
    [] OTHER -> "handle_general_query"

\* The if/elif chain of process_query: the handler of a query type
dispatch(query_type) ==
  CASE query_type = "weather" -> "handle_weather_query"
    [] query_type = "policy" -> "handle_policy_query"
    [] query_type = "price" -> "handle_price_query"
    [] query_type = "technical" -> "handle_technical_query"
    [] query_type = "general" -> "handle_general_query"
    [] query_type = "agriculture" -> "handle_agriculture_query"
    [] OTHER -> "handle_general_query"

run_handler(handler, query, env) ==
  CASE handler = "handle_weather_query" -> handle_weather_query(query, env)
    [] handler = "handle_policy_query" -> handle_policy_query(query, env)
    [] handler = "handle_price_query" -> handle_price_query(query, env)
    [] handler = "handle_technical_query" -> handle_technical_query(query, env)
    [] handler = "handle_general_query" -> handle_general_query(query, env)
    [] handler = "handle_agriculture_query" -> handle_agriculture_query(query, env)

\* The setup gate with the test of is_user_initialized inverted
setup_gate_inverted(query) ==
  is_user_initialized /\ ~Facts(query).setup_command

\* The setup gate: not initialized, and no setup command inside the query
setup_gate(query) ==
  ~is_user_initialized /\ ~Facts(query).setup_command

\* The classification step, given what the classifier did (cls): whether it
\* failed, and the query type process_query goes on with
classification_of(query, cm, cls) ==
  [cls |-> cls,
   failed |-> cm.kind = "stub_raises" \/ cls.raised,
   query_type |-> IF cm.kind = "stub_raises" \/ cls.raised
                  THEN Facts(query).inline_fallback
                  ELSE IF cm.kind = "stub_other" THEN "other"
                  ELSE cls.category]

\* The classification step: the classifier's result, and the query type
\* process_query goes on with (its except branch uses the inline fallback)
classification_step(query, cm) ==
  classification_of(query, cm,
                    IF cm.kind = "pipeline" THEN Classify(query, cm.po) ELSE NoCls)

\* What process_query returns past the setup gate, given its classification
\* step c, the handler it dispatched to and what that handler did (r)
process_query_result(c, handler, r) ==
  [gated |-> FALSE, cls |-> c.cls, classify_failed |-> c.failed,
   query_type |-> c.query_type,
   handlers |-> <<handler>>, response |-> r.response,
   calls |-> <<Call("classify_query", NoArg)>> \o r.calls,
   raised |-> r.raised]

\* process_query past the setup gate: the dispatch on the query type of the
\* classification step c
process_query_dispatch(query, env, c) ==
  process_query_result(c, dispatch(c.query_type),
                       run_handler(dispatch(c.query_type), query, env))

\* process_query: everything one call does, for one behaviour of the
\* classifier (cm) and of the collaborators (env)
process_query(query, cm, env) ==
  IF setup_gate(query)
  THEN [gated |-> TRUE, cls |-> NoCls, classify_failed |-> FALSE, query_type |-> NA,
        handlers |-> << >>, response |-> <<"setup_required">>, calls |-> << >>,
        raised |-> FALSE]
  ELSE process_query_dispatch(query, env, classification_step(query, cm))

\* The behaviours of the collaborators that one process_query call can meet.
\* A collaborator the call never reaches is NA.
Env(w, p, s, c, pr, t, h) ==
  [weather |-> w, policy |-> p, soil |-> s, crops |-> c, price |-> pr, trend |-> t,
   http |-> h]

NoEnv == Env(NA, NA, NA, NA, NA, NA, NA)

\* The HTTP outcomes a call can meet: none without an API key
HttpEnvs == IF api_key THEN HttpOutcomes ELSE {NA}

EnvsOf(handler, query) ==
  CASE handler = "handle_weather_query" ->
         IF ~is_user_initialized THEN {NoEnv}
         ELSE {Env(w, NA, NA, NA, NA, NA, NA) : w \in WeatherOutcomes \ {"ok"}}
                \cup {Env("ok", NA, NA, NA, NA, NA, h) : h \in HttpEnvs}
    [] handler = "handle_policy_query" ->
         IF ~policy_loaded THEN {Env(NA, NA, NA, NA, NA, NA, h) : h \in HttpEnvs}
         ELSE {Env(NA, "ok", NA, NA, NA, NA, NA)}
                \cup {Env(NA, "raise", NA, NA, NA, NA, h) : h \in HttpEnvs}
    [] handler = "handle_price_query" ->
         IF Facts(query).extract.crop = None
         THEN {Env(NA, NA, NA, c, NA, NA, NA) : c \in {"some", "empty", "raise"}}
         ELSE {Env(NA, NA, NA, NA, pr, NA, h) :
                 pr \in DmOutcomes \ {"ok"}, h \in HttpEnvs}
                \cup {Env(NA, NA, NA, NA, "ok", t, h) : t \in DmOutcomes, h \in HttpEnvs}
    [] handler = "handle_agriculture_query" ->
         IF Facts(query).soil_keyword
         THEN {Env(NA, NA, s, NA, NA, NA, h) : s \in SoilOutcomes, h \in HttpEnvs}
         ELSE IF Facts(query).crop_keyword
         THEN {Env(NA, NA, "raise", NA, NA, NA, h) : h \in HttpEnvs}
                \cup {Env(NA, NA, s, c, NA, NA, h) :
                        s \in DmOutcomes \ {"raise"}, c \in CropsOutcomes,
                        h \in HttpEnvs}
         ELSE {Env(NA, NA, NA, NA, NA, NA, h) : h \in HttpEnvs}
    [] OTHER -> {Env(NA, NA, NA, NA, NA, NA, h) : h \in HttpEnvs}

RelevantEnvs(query, cm) ==
  IF setup_gate(query) THEN {NoEnv}
  ELSE EnvsOf(dispatch(classification_step(query, cm).query_type), query)

\* The queries process_query is run with
BotQueries ==
  {Q_rain_now, Q_Mandi_price, Q_wheat_price_kanpur, Q_market_rate, Q_tractor_fix,
   Q_what_is_farming, Q_crop_yield, Q_soil_ph, Q_hello, Q_organic, Q_city_rain,
   Q_crop_help, Q_mandi_rain, Q_market_rate_agra, Q_crop_for_soil}

\* process_query with a price handler that keeps the location of the query as
\* the user's city
ProcessQuery_keeps_location ==
  \E query \in BotQueries, cm \in ClassifierModes :
    \E env \in RelevantEnvs(query, cm) :
      LET r == process_query(query, cm, env)
          location == Facts(query).extract.location
      IN  /\ last' = [op |-> "process_query", query |-> query, classifier |-> cm,
                      env |-> env, result |-> r]
          /\ user_city' = IF r.handlers = <<"handle_price_query">> /\ location # None
                          THEN location ELSE user_city
          /\ UNCHANGED <<user_crop, user_language, is_initialized, api_key,
                         policy_loaded, store>>

ProcessQuery ==
  \E query \in BotQueries, cm \in ClassifierModes :
    \E env \in RelevantEnvs(query, cm) :
      /\ last' = [op |-> "process_query", query |-> query, classifier |-> cm,
                  env |-> env, result |-> process_query(query, cm, env)]
      /\ UNCHANGED <<session, api_key, policy_loaded, store>>

\* A direct call of QueryClassifier.classify_query
ClassifyQuery ==
  \E query \in Queries, po \in PipelineOutcomes :
    /\ last' = [op |-> "classify_query", query |-> query, pipeline |-> po,
                cls |-> Classify(query, po)]
    /\ UNCHANGED <<session, api_key, policy_loaded, store>>

(***************************************************************************)
(* Direct calls of the LLM client                                          *)
(***************************************************************************)

\* The texts the client is called with: English, Hindi (Devanagari)
GenQueries == {Q_rain_now, Q_mausam_hi, Q_wheat_price_kanpur}

\* The arguments of a method whose prompt is built by indexing them can make
\* that raise; the other methods format strings only.
ArgsOk(method) ==
  IF method \in {"generate_weather_advice", "generate_weather_advice_comprehensive"}
  THEN BOOLEAN ELSE {TRUE}

CallGenerate ==
  \E method \in GenerateMethods, query \in GenQueries, language \in Languages,
     http \in HttpOutcomes :
    \E args_ok \in ArgsOk(method) :
      /\ last' = [op |-> "generate", method |-> method, query |-> query,
                  language |-> language, args_ok |-> args_ok, http |-> http,
                  result |-> generate(method, query, language, args_ok, http)]
      /\ UNCHANGED <<session, api_key, policy_loaded, store>>

(***************************************************************************)
(* The local store: agri_data.db (src/init_mandi_soil.py and the bot's     *)
(* get_latest_prices_all_markets)                                          *)
(***************************************************************************)


\* Rows of mandi_prices.csv (Arrival_Date as a day number; the markets are
\* "M1", "M2", "M3")
P1 == [District |-> D_kanpur_nagar, Market |-> <<77,49>>, Commodity |-> T_Wheat,
       Arrival_Date |-> 1, Modal_Price |-> 2000]
P2 == [District |-> D_kanpur_nagar, Market |-> <<77,50>>, Commodity |-> T_Wheat,
       Arrival_Date |-> 2, Modal_Price |-> 2100]
P3 == [District |-> D_agra, Market |-> <<77,51>>, Commodity |-> T_Rice,
       Arrival_Date |-> 3, Modal_Price |-> 3000]

\* Rows of soil_health.csv
S1 == [District |-> D_kanpur_nagar, pH |-> 7]
S2 == [District |-> D_agra, pH |-> 8]

Unreadable == "unreadable"
Missing == "missing"

\* Two tables, or two databases, are the same (a missing table is no rows at
\* all, not an empty table)
SameTable(a, b) ==
  IF a = Missing \/ b = Missing THEN a = Missing /\ b = Missing ELSE a = b

SameDb(d, e) ==
  SameTable(d.mandi_prices, e.mandi_prices) /\ SameTable(d.soil_health, e.soil_health)

\* The CSV files init_db is given: their rows in order, or a file that
\* pd.read_csv cannot read
PriceCsvs == {Unreadable, <<P1>>, <<P1, P2, P3>>}
SoilCsvs == {Unreadable, <<S1, S2>>}

\* The texts the lookups are called with; "K_npur" has a LIKE wildcard
LookupCities == {T_kanpur, <<75,95,110,112,117,114>>}
LookupCrops == {T_wheat, T_Rice}

\* The case folding of SQLite's LIKE: the ASCII letters only
AsciiLower(c) == IF c \in 65..90 THEN c + 32 ELSE c

\* SQLite's `value LIKE pattern`: % stands for any run of characters, _ for
\* one character, the other characters match without regard to ASCII case
RECURSIVE like_match(_, _)
like_match(pattern, value) ==
  IF pattern = << >> THEN value = << >>
  ELSE IF Head(pattern) = 37
  THEN like_match(Tail(pattern), value)
         \/ (value # << >> /\ like_match(pattern, Tail(value)))
  ELSE /\ value # << >>
       /\ (Head(pattern) = 95 \/ AsciiLower(Head(pattern)) = AsciiLower(Head(value)))
       /\ like_match(Tail(pattern), Tail(value))

\* `column LIKE ?` with f"%{text}%" bound to it
like(text, column) == like_match(<<37>> \o text \o <<37>>, column)

\* like, evaluated once for the texts of the lookups and of the rows
LikeTable ==
  [text \in LookupCities \cup LookupCrops,
   column \in {D_kanpur_nagar, D_agra, T_Wheat, T_Rice} |-> like(text, column)]

Like(text, column) ==
  IF <<text, column>> \in DOMAIN LikeTable THEN LikeTable[text, column]
  ELSE like(text, column)

Range(s) == {s[i] : i \in 1..Len(s)}

\* A lookup either returns or lets an exception leave it
Returns(text, rows) == [raised |-> FALSE, exc |-> NA, text |-> text, rows |-> rows]
Raises(exc) == [raised |-> TRUE, exc |-> exc, text |-> << >>, rows |-> << >>]

\* The rows of a table that the WHERE clause selects, in table order
RECURSIVE Select(_, _, _)
Select(table, city, crop) ==
  IF table = << >> THEN << >>
  ELSE (IF Like(city, Head(table).District) /\ Like(crop, Head(table).Commodity)
        THEN <<Head(table)>> ELSE << >>) \o Select(Tail(table), city, crop)

\* The first of the rows with the greatest Arrival_Date: what
\* ORDER BY date(Arrival_Date) DESC LIMIT 1 and the bare columns beside
\* MAX(Arrival_Date) give on this SQLite build (rows # << >>)
LatestRow(rows) ==
  rows[CHOOSE i \in 1..Len(rows) :
         /\ \A j \in 1..Len(rows) : rows[j].Arrival_Date <= rows[i].Arrival_Date
         /\ \A j \in 1..(i - 1) : rows[j].Arrival_Date < rows[i].Arrival_Date]

\* The order of two texts under SQLite's BINARY collation
TextLess(a, b) ==
  \E k \in 1..(Len(a) + 1) :
    /\ \A j \in 1..(k - 1) : j <= Len(b) /\ a[j] = b[j]
    /\ k <= Len(b)
    /\ (k <= Len(a) => a[k] < b[k])

\* ORDER BY MAX(Arrival_Date) DESC over the rows of GROUP BY Market; rows of
\* one date come out with the greater Market first on this SQLite build
RECURSIVE ByDateDesc(_)
ByDateDesc(groups) ==
  IF groups = {} THEN << >>
  ELSE LET top == CHOOSE r \in groups :
                    \A q \in groups \ {r} :
                      \/ q.Arrival_Date < r.Arrival_Date
                      \/ (q.Arrival_Date = r.Arrival_Date /\ TextLess(q.Market, r.Market))
       IN  <<top>> \o ByDateDesc(groups \ {top})

\* init_mandi_soil.get_latest_price(city, crop)
get_latest_price(city, crop) ==
  IF db.mandi_prices = Missing THEN Raises("OperationalError")
  ELSE LET rows == Select(db.mandi_prices, city, crop)
       IN  IF rows # << >> THEN Returns(<<"latest_price">>, <<LatestRow(rows)>>)
           ELSE Returns(<<"no_price_data_found">>, << >>)

\* PRAGMA table_info(soil_health): one row (cid, name, ...) for each column
soil_table_info == <<<<"0", "District">>, <<"1", "pH">>>>

\* init_mandi_soil.get_soil_health(city).  columns takes col[0], the cid of
\* each table_info row, so soil_data has no key 'pH' whatever the PRAGMA
\* statement, the second one of the call, returns.
get_soil_health(city) ==
  IF db.soil_health = Missing THEN Raises("OperationalError")
  ELSE LET rows == SelectSeq(db.soil_health, LAMBDA r : Like(city, r.District))
           columns == [i \in 1..Len(soil_table_info) |-> soil_table_info[i][1]]
       IN  IF rows # << >>
           THEN IF "pH" \in Range(columns)
                THEN Returns(<<"soil_health_for">>, <<rows[1]>>)
                ELSE Raises("KeyError")
           ELSE Returns(<<"no_soil_health_data_found">>, << >>)

\* AgriculturalAdvisorBot.get_latest_prices_all_markets(city, crop): one row
\* for each market, its latest, the latest date first
get_latest_prices_all_markets(city, crop) ==
  IF db.mandi_prices = Missing THEN Raises("OperationalError")
  ELSE LET rows == Select(db.mandi_prices, city, crop)
           of_market(m) == SelectSeq(rows, LAMBDA r : r.Market = m)
           groups == {LatestRow(of_market(r.Market)) : r \in Range(rows)}
       IN  Returns(<< >>, ByDateDesc(groups))

\* df.to_sql(name, conn, if_exists="replace", index=False) with a sqlite3
\* connection runs up to four statements, each on its own, no lock held from
\* one to the next: the SELECT that asks whether the table exists, DROP TABLE
\* when it did, CREATE TABLE, and the INSERT of the rows of the CSV, the last
\* three committed one by one.  The statement that comes next, given how far
\* the call is:
to_sql_statement_append(at) ==
  CASE at = "begin" -> "CHECK"
    [] at = "exists" -> "INSERT"    \* if_exists="append": the rows are added
    [] at \in {"absent", "dropped"} -> "CREATE"
    [] at \in {"created", "recreated"} -> "INSERT"

to_sql_statement(at) ==
  CASE at = "begin" -> "CHECK"
    [] at = "exists" -> "DROP"
    [] at \in {"absent", "dropped"} -> "CREATE"
    [] at \in {"created", "recreated"} -> "INSERT"

\* The table after one statement of to_sql
to_sql(table, rows, statement) ==
  CASE statement = "CHECK" -> table
    [] statement = "DROP" -> Missing
    [] statement = "CREATE" -> << >>
    [] statement = "INSERT" -> table \o rows

\* How far the call is after a statement that did not raise
to_sql_at(table, at, statement) ==
  CASE statement = "CHECK" -> IF table = Missing THEN "absent" ELSE "exists"
    [] statement = "DROP" -> "dropped"
    [] statement = "CREATE" -> IF at = "dropped" THEN "recreated" ELSE "created"
    [] statement = "INSERT" -> at

\* pd.read_csv (before the first statement) and one statement of to_sql on
\* the table `name`.  An unreadable CSV raises; so does a writing statement
\* while another connection holds the write lock ('database is locked'), a
\* DROP or an INSERT of a table that is gone ('no such table') and a
\* CREATE of a table that is there.  What was committed before stays.
to_sql_step(name, rows) ==
  LET statement == to_sql_statement(init_run.at)
      raised == \/ rows = Unreadable
                \/ (statement # "CHECK" /\ cli_conn.in_tx)
                \/ (statement \in {"DROP", "INSERT"} /\ db[name] = Missing)
                \/ (statement = "CREATE" /\ db[name] # Missing)
  IN  [statement |-> statement,
       raised |-> raised,
       written |-> ~raised /\ statement = "INSERT",
       at |-> to_sql_at(db[name], init_run.at, statement),
       database |-> IF raised THEN db
                    ELSE [db EXCEPT ![name] = to_sql(@, rows, statement)]]

\* init_db up to the end of its first to_sql (lines 5-9), one statement at a
\* step: the price CSV is read and written.  An exception ends the call.
InitDbPrices ==
  /\ init_run.pc \in {"idle", "prices"}
  /\ \E price_csv \in IF init_run.pc = "idle" THEN PriceCsvs ELSE {init_run.price_csv},
        soil_csv \in IF init_run.pc = "idle" THEN SoilCsvs ELSE {init_run.soil_csv} :
       LET step == to_sql_step("mandi_prices", price_csv)
           run == IF init_run.pc = "idle"
                  THEN [pc |-> "prices", at |-> "begin", price_csv |-> price_csv,
                        soil_csv |-> soil_csv, alone |-> TRUE]
                  ELSE init_run
       IN  /\ db' = step.database
           /\ init_run' = IF step.raised THEN NoInitRun
                          ELSE IF step.written
                          THEN [run EXCEPT !.pc = "soil", !.at = "begin"]
                          ELSE [run EXCEPT !.at = step.at]
           /\ last' = [op |-> "init_db", price_csv |-> price_csv, soil_csv |-> soil_csv,
                       statement |-> step.statement, done |-> step.raised,
                       raised |-> step.raised, replaced |-> run.at = "recreated",
                       alone |-> run.alone]
           /\ UNCHANGED <<session, api_key, policy_loaded, stats_run, cli_conn>>

\* init_db from there (lines 12-16), one statement at a step: the soil CSV is
\* read and written, the connection closed
InitDbSoil ==
  /\ init_run.pc = "soil"
  /\ LET step == to_sql_step("soil_health", init_run.soil_csv)
     IN  /\ db' = step.database
         /\ init_run' = IF step.raised \/ step.written THEN NoInitRun
                        ELSE [init_run EXCEPT !.at = step.at]
         /\ last' = [op |-> "init_db", price_csv |-> init_run.price_csv,
                     soil_csv |-> init_run.soil_csv, statement |-> step.statement,
                     done |-> step.raised \/ step.written, raised |-> step.raised,
                     replaced |-> init_run.at = "recreated", alone |-> init_run.alone]
         /\ UNCHANGED <<session, api_key, policy_loaded, stats_run, cli_conn>>

GetLatestPrice ==
  \E city \in LookupCities, crop \in LookupCrops :
    /\ last' = [op |-> "get_latest_price", city |-> city, crop |-> crop,
                result |-> get_latest_price(city, crop)]
    /\ UNCHANGED <<session, api_key, policy_loaded, store>>

GetSoilHealth ==
  \E city \in LookupCities :
    /\ last' = [op |-> "get_soil_health", city |-> city, crop |-> << >>,
                result |-> get_soil_health(city)]
    /\ UNCHANGED <<session, api_key, policy_loaded, store>>

GetLatestPricesAllMarkets ==
  \E city \in LookupCities, crop \in LookupCrops :
    /\ last' = [op |-> "get_latest_prices_all_markets", city |-> city, crop |-> crop,
                result |-> get_latest_prices_all_markets(city, crop)]
    /\ UNCHANGED <<session, api_key, policy_loaded, store>>

(***************************************************************************)
(* The other users of agri_data.db: the Streamlit statistics and the       *)
(* sqlite_cli loop (src/streamlit_app.py, src/sqlite_cli.py)               *)
(***************************************************************************)

\* What a statement that raised leaves in the place of its count
NoCount == -1

\* The four statements of streamlit_app.get_database_stats, in order; each
\* reads the committed rows at the time it runs and raises on a missing table
stats_statement(n) ==
  CASE n = 1 -> IF db.mandi_prices = Missing THEN NoCount ELSE Len(db.mandi_prices)
    [] n = 2 -> IF db.soil_health = Missing THEN NoCount ELSE Len(db.soil_health)
    [] n = 3 -> IF db.mandi_prices = Missing THEN NoCount
                ELSE Cardinality({r.Commodity : r \in Range(db.mandi_prices)})
    [] n = 4 -> IF db.mandi_prices = Missing THEN NoCount
                ELSE Cardinality({r.Market : r \in Range(db.mandi_prices)})

\* streamlit_app.get_database_stats from the counts read: the dictionary, or
\* None when a statement raised (the except branch shows st.error)
get_database_stats(counts) ==
  IF \E i \in 1..Len(counts) : counts[i] = NoCount
  THEN [raised |-> FALSE, stats |-> None]
  ELSE [raised |-> FALSE,
        stats |-> [price_records |-> counts[1], soil_records |-> counts[2],
                   unique_crops |-> counts[3], unique_markets |-> counts[4]]]

\* One statement of a get_database_stats call; the call ends with the fourth
\* statement or with the first that raises
GetDatabaseStats ==
  LET counts == Append(stats_run, stats_statement(Len(stats_run) + 1))
      done == Len(counts) = 4 \/ counts[Len(counts)] = NoCount
  IN  /\ stats_run' = IF done THEN << >> ELSE counts
      /\ last' = [op |-> "get_database_stats", done |-> done, counts |-> counts,
                  result |-> IF done THEN get_database_stats(counts)
                             ELSE [raised |-> FALSE, stats |-> None]]
      /\ UNCHANGED <<session, api_key, policy_loaded, db, init_run, cli_conn>>

\* The lines typed at the sqlite> prompt
CliLines ==
  {"SELECT * FROM mandi_prices", "DELETE FROM mandi_prices",
   "DROP TABLE mandi_prices", "DROP TABLE soil_health", "COMMIT", "bogus",
   "tables", "quit"}

\* The longest input of one sqlite_cli run, the closing quit aside
MaxLines == 2

\* The connection of a sqlite_cli run at one line: the tables as the
\* connection sees them (view), the tables on disk (committed), and whether
\* the sqlite3 module has opened a transaction (it does before DELETE, not
\* before DROP).  pd.read_sql_query executes the text; a statement that
\* fails is rolled back, one that yields no result set raises only after it
\* ran.
cli_line(c, line) ==
  LET rollback == [view |-> c.committed, committed |-> c.committed, in_tx |-> FALSE]
  IN  CASE line = "SELECT * FROM mandi_prices" ->
             IF c.view.mandi_prices = Missing THEN rollback ELSE c
        [] line = "DELETE FROM mandi_prices" ->
             IF c.view.mandi_prices = Missing THEN rollback
             ELSE [c EXCEPT !.view.mandi_prices = << >>, !.in_tx = TRUE]
        [] line = "DROP TABLE mandi_prices" ->
             IF c.view.mandi_prices = Missing THEN rollback
             ELSE IF c.in_tx THEN [c EXCEPT !.view.mandi_prices = Missing]
             ELSE [c EXCEPT !.view.mandi_prices = Missing,
                            !.committed.mandi_prices = Missing]
        [] line = "DROP TABLE soil_health" ->
             IF c.view.soil_health = Missing THEN rollback
             ELSE IF c.in_tx THEN [c EXCEPT !.view.soil_health = Missing]
             ELSE [c EXCEPT !.view.soil_health = Missing,
                            !.committed.soil_health = Missing]
        [] line = "COMMIT" ->
             IF c.in_tx THEN [view |-> c.view, committed |-> c.view, in_tx |-> FALSE]
             ELSE rollback
        [] line = "bogus" -> rollback
        [] line = "tables" -> c

\* One turn of the loop of sqlite_cli: the run connects before its first
\* line; quit (or the end of the input) closes the connection, which drops
\* what was not committed; any other line goes through cli_line.  While the
\* run waits for its next line the other processes go on; an init_db call
\* under way is no longer alone once a line has committed a change of the
\* tables.
SqliteCli ==
  \E line \in CliLines :
    LET lines == IF cli_conn.open THEN cli_conn.lines ELSE 0
        c == [view |-> IF cli_conn.in_tx THEN cli_conn.view ELSE db,
              committed |-> db, in_tx |-> cli_conn.in_tx]
        after == cli_line(c, line)
    IN  /\ lines < MaxLines \/ line = "quit"
        /\ db' = IF line = "quit" THEN db ELSE after.committed
        /\ cli_conn' = IF line = "quit" THEN NoConn
                       ELSE [open |-> TRUE, in_tx |-> after.in_tx,
                             view |-> IF after.in_tx THEN after.view ELSE NoDb,
                             lines |-> lines + 1]
        /\ init_run' = IF /\ init_run.pc # "idle" /\ line # "quit"
                           /\ ~SameDb(after.committed, db)
                        THEN [init_run EXCEPT !.alone = FALSE] ELSE init_run
        /\ last' = [op |-> "sqlite_cli", line |-> line, closed |-> line = "quit"]
        /\ UNCHANGED <<session, api_key, policy_loaded, stats_run>>

(***************************************************************************)
(* run_interactive: the prompt loop                                        *)
(***************************************************************************)

T_quit == <<113,117,105,116>>  \* "quit"
T_exit == <<101,120,105,116>>  \* "exit"
T_q == <<113>>  \* "q"
T_help == <<104,101,108,112>>  \* "help"
T_stats == <<115,116,97,116,115>>  \* "stats"
T_city == <<99,105,116,121>>  \* "city"
T_crop == <<99,114,111,112>>  \* "crop"
T_language == <<108,97,110,103,117,97,103,101>>  \* "language"

\* str.isspace() of one code point: the white space that str.strip() removes
IsSpace(c) ==
  c \in (9..13) \cup (28..32) \cup {133, 160, 5760} \cup (8192..8202)
         \cup {8232, 8233, 8239, 8287, 12288}

\* str.strip(): the white space at both ends removed
Strip(s) ==
  IF \A i \in 1..Len(s) : IsSpace(s[i]) THEN << >>
  ELSE LET first == CHOOSE i \in 1..Len(s) :
                      ~IsSpace(s[i]) /\ \A j \in 1..(i - 1) : IsSpace(s[j])
           final == CHOOSE i \in 1..Len(s) :
                      ~IsSpace(s[i]) /\ \A j \in (i + 1)..Len(s) : IsSpace(s[j])
       IN  SubSeq(s, first, final)

\* command.split(' ', 1): the parts around the first space
split_once(command) ==
  IF \E i \in 1..Len(command) : command[i] = 32
  THEN LET i == CHOOSE k \in 1..Len(command) :
                  command[k] = 32 /\ \A j \in 1..(k - 1) : command[j] # 32
       IN  <<SubSeq(command, 1, i - 1), SubSeq(command, i + 1, Len(command))>>
  ELSE <<command>>

\* The branch of run_interactive's if/elif chain with exact, case-sensitive
\* prefixes
interactive_branch_case_sensitive(user_input) ==
  LET lowered == Lower(user_input)
  IN  IF lowered \in {T_quit, T_exit, T_q} THEN "quit"
      ELSE IF lowered = T_help THEN "help"
      ELSE IF lowered = T_stats THEN "stats"
      ELSE IF StartsWith(user_input, T_city) THEN "city"
      ELSE IF StartsWith(user_input, T_crop) THEN "crop"
      ELSE IF StartsWith(user_input, T_language) THEN "language"
      ELSE IF user_input # << >> THEN "query"
      ELSE "empty"

\* The branch of run_interactive's if/elif chain asking for 'help' by prefix
interactive_branch_help_prefix(user_input) ==
  LET lowered == Lower(user_input)
  IN  IF lowered \in {T_quit, T_exit, T_q} THEN "quit"
      ELSE IF StartsWith(lowered, T_help) THEN "help"
      ELSE IF lowered = T_stats THEN "stats"
      ELSE IF StartsWith(lowered, T_city) THEN "city"
      ELSE IF StartsWith(lowered, T_crop) THEN "crop"
      ELSE IF StartsWith(lowered, T_language) THEN "language"
      ELSE IF user_input # << >> THEN "query"
      ELSE "empty"

\* The branch of run_interactive's if/elif chain that a stripped line takes
interactive_branch(user_input) ==
  LET lowered == Lower(user_input)
  IN  IF lowered \in {T_quit, T_exit, T_q} THEN "quit"
      ELSE IF lowered = T_help THEN "help"
      ELSE IF lowered = T_stats THEN "stats"
      ELSE IF StartsWith(lowered, T_city) THEN "city"
      ELSE IF StartsWith(lowered, T_crop) THEN "crop"
      ELSE IF StartsWith(lowered, T_language) THEN "language"
      ELSE IF user_input # << >> THEN "query"
      ELSE "empty"

\* The lines typed at the prompt of the loop
InteractiveInputs ==
  {T_quit, T_q, T_exit, T_stats, T_city, T_crop, T_language,
   Q_city_rain, Q_crop_yield, Q_hello, Q_help_me, Q_Mandi_price, << >>,
   <<81,85,73,84>>,  \* "QUIT"
   <<32,32,72,101,108,112,32>>,  \* "  Help "
   <<99,105,116,121,32,80,117,110,101>>,  \* "city Pune"
   <<67,105,116,121,32,32,75,97,110,112,117,114>>,  \* "City  Kanpur"
   <<99,105,116,121,32,8490,97,110,112,117,114>>,  \* "city " and T_Kanpur_kelvin
   <<99,114,111,112,32,87,104,101,97,116>>,  \* "crop Wheat"
   <<76,97,110,103,117,97,103,101,32,72,105,110,100,105>>,  \* "Language Hindi"
   <<108,97,110,103,117,97,103,101,32,69,110,103,108,105,115,104>>,  \* "language English"
   <<32,114,97,105,110,32,110,111,119,32>>,  \* " rain now "
   <<114,97,105,110,32,110,111,119,160>>,  \* "rain now" and U+00A0
   <<28,113,117,105,116>>,  \* U+001C and "quit"
   <<160>>,  \* U+00A0
   <<32,32>>}  \* "  "

\* One line of the loop, read once: the stripped text, its branch, and the
\* parts the _handle_*_command methods split it into
interactive_line(raw) ==
  LET user_input == Strip(raw)
      parts == split_once(user_input)
  IN  [user_input |-> user_input,
       branch |-> interactive_branch(user_input),
       has_arg |-> Len(parts) > 1,
       arg |-> IF Len(parts) > 1 THEN Strip(parts[2]) ELSE << >>]

InteractiveLines == [raw \in InteractiveInputs |-> interactive_line(raw)]

\* What input() can do at a prompt: return a line, or raise KeyboardInterrupt
\* (Ctrl-C) or EOFError (the end of the input)
Interrupts == {"KeyboardInterrupt", "EOFError"}

\* The lines typed at the prompts of _run_initial_setup
SetupCityInputs ==
  {<< >>, <<32>>, T_Pune, T_Kanpur_kelvin,
   <<32,75,97,110,112,117,114,160>>}  \* " Kanpur" and U+00A0
SetupCropInputs == {<< >>, T_Wheat}
SetupLanguageInputs == {<< >>, T_Hindi}

NoExc == "none"

\* One step of run_interactive up to its next input(): the prompt the line
\* was read at, the line, the exception input() raised in place of a line, the
\* methods called, and where run_interactive is afterwards: at a prompt, or
\* "ended"
SetupStep(prompt, input, exc, called, at) ==
  [op |-> "run_interactive", prompt |-> prompt, input |-> input, exc |-> exc,
   branch |-> "setup", called |-> called, at |-> at]

\* run_interactive is at the city prompt of _run_initial_setup: it was just
\* called with the user not initialized (no city is set then: is_initialized
\* is never taken back), or an empty line was typed at this prompt
AtSetupCity ==
  \/ last.op = "init" /\ ~is_user_initialized
  \/ last.op = "run_interactive" /\ last.at = "city"

\* `while not self.user_city`: one line at the city prompt.  A line that is
\* not empty sets the city and the crop prompt follows; an empty line brings
\* the prompt again; Ctrl-C leaves by exit(0); EOFError is not caught
SetupCity ==
  /\ AtSetupCity
  /\ \/ \E raw \in SetupCityInputs :
          LET city_input == Strip(raw)
          IN  /\ user_city' = IF city_input # << >> THEN city_input ELSE user_city
              /\ is_initialized' = IF city_input # << >> THEN TRUE ELSE is_initialized
              /\ last' = SetupStep("city", raw, NoExc,
                                   IF city_input # << >> THEN <<"set_user_city">>
                                   ELSE << >>,
                                   IF city_input # << >> THEN "crop" ELSE "city")
     \/ \E exc \in Interrupts :
          /\ last' = SetupStep("city", << >>, exc, << >>, "ended")
          /\ UNCHANGED <<user_city, is_initialized>>
  /\ UNCHANGED <<user_crop, user_language, api_key, policy_loaded, store>>

\* The crop prompt of _run_initial_setup: a line that is not empty sets the
\* crop; the language prompt follows
SetupCrop ==
  /\ last.op = "run_interactive" /\ last.at = "crop"
  /\ \/ \E raw \in SetupCropInputs :
          LET crop_input == Strip(raw)
          IN  /\ user_crop' = IF crop_input # << >> THEN crop_input ELSE user_crop
              /\ last' = SetupStep("crop", raw, NoExc,
                                   IF crop_input # << >> THEN <<"set_user_crop">>
                                   ELSE << >>,
                                   "language")
     \/ \E exc \in Interrupts :
          /\ last' = SetupStep("crop", << >>, exc, << >>, "ended")
          /\ UNCHANGED user_crop
  /\ UNCHANGED <<user_city, user_language, is_initialized, api_key, policy_loaded, store>>

\* The language prompt of _run_initial_setup: a line that is not empty sets
\* the language; the setup is complete and the loop of run_interactive follows
SetupLanguage ==
  /\ last.op = "run_interactive" /\ last.at = "language"
  /\ \/ \E raw \in SetupLanguageInputs :
          LET lang_input == Strip(raw)
          IN  /\ user_language' = IF lang_input # << >> THEN lang_input
                                  ELSE user_language
              /\ last' = SetupStep("language", raw, NoExc,
                                   IF lang_input # << >> THEN <<"set_user_language">>
                                   ELSE << >>,
                                   "loop")
     \/ \E exc \in Interrupts :
          /\ last' = SetupStep("language", << >>, exc, << >>, "ended")
          /\ UNCHANGED user_language
  /\ UNCHANGED <<user_city, user_crop, is_initialized, api_key, policy_loaded, store>>

\* run_interactive is at the prompt of its loop: the setup is complete, or
\* it was just called with the user initialized
AtLoop ==
  \/ last.op = "init" /\ is_user_initialized
  \/ last.op = "run_interactive" /\ last.at = "loop"

\* One turn of the while loop of run_interactive: a line is read, stripped
\* and taken by one branch; 'quit', 'exit' and 'q' leave the loop
InteractiveLine ==
  /\ AtLoop
  /\ \E raw \in InteractiveInputs :
       LET line == InteractiveLines[raw]
           setting == line.branch \in {"city", "crop", "language"} /\ line.has_arg
       IN  \E cm \in IF line.branch = "query" THEN ClassifierModes
                     ELSE {[kind |-> NA, po |-> NoPipeline]} :
             \E env \in IF line.branch = "query" THEN RelevantEnvs(line.user_input, cm)
                        ELSE {NoEnv} :
               /\ user_city' = IF line.branch = "city" /\ setting
                               THEN line.arg ELSE user_city
               /\ is_initialized' = IF line.branch = "city" /\ setting
                                    THEN TRUE ELSE is_initialized
               /\ user_crop' = IF line.branch = "crop" /\ setting
                               THEN line.arg ELSE user_crop
               /\ user_language' = IF line.branch = "language" /\ setting
                                   THEN line.arg ELSE user_language
               /\ last' =
                    [op |-> "run_interactive", prompt |-> "loop", input |-> raw,
                     exc |-> NoExc, branch |-> line.branch,
                     called |->
                       CASE line.branch = "help" -> <<"show_help">>
                         [] line.branch = "stats" -> <<"show_stats">>
                         [] line.branch = "city" ->
                              <<"handle_city_command">>
                                \o (IF setting THEN <<"set_user_city">> ELSE << >>)
                         [] line.branch = "crop" ->
                              <<"handle_crop_command">>
                                \o (IF setting THEN <<"set_user_crop">> ELSE << >>)
                         [] line.branch = "language" ->
                              <<"handle_language_command">>
                                \o (IF setting THEN <<"set_user_language">> ELSE << >>)
                         [] line.branch = "query" -> <<"process_query">>
                         [] OTHER -> << >>,
                     at |-> IF line.branch = "quit" THEN "ended" ELSE "loop",
                     query |-> IF line.branch = "query" THEN line.user_input ELSE << >>,
                     classifier |-> cm,
                     env |-> env,
                     response |-> IF line.branch = "query"
                                  THEN process_query(line.user_input, cm, env).response
                                  ELSE << >>]
               /\ UNCHANGED <<api_key, policy_loaded, store>>

\* input() raises at the prompt of the loop: KeyboardInterrupt leaves the
\* loop; EOFError is caught by `except Exception`, and the prompt comes again
InteractiveInterrupt ==
  /\ AtLoop
  /\ \E exc \in Interrupts :
       last' = [op |-> "run_interactive", prompt |-> "loop", input |-> << >>,
                exc |-> exc, branch |-> "interrupt", called |-> << >>,
                at |-> IF exc = "KeyboardInterrupt" THEN "ended" ELSE "loop",
                query |-> << >>, classifier |-> [kind |-> NA, po |-> NoPipeline],
                env |-> NoEnv, response |-> << >>]
  /\ UNCHANGED <<session, api_key, policy_loaded, store>>

(***************************************************************************)
(* Specifications                                                          *)
(***************************************************************************)

\* The bot: the session commands and process_query
Next ==
  \/ SetUserCity
  \/ SetUserCrop
  \/ SetUserLanguage
  \/ ProcessQuery

Spec == Init /\ [][Next]_vars

\* The classifier, called directly, in every session state
NextClassifier ==
  \/ SetUserCity
  \/ SetUserCrop
  \/ SetUserLanguage
  \/ ClassifyQuery

SpecClassifier == Init /\ [][NextClassifier]_vars

\* The LLM client, called directly
NextLLM ==
  \/ CallGenerate

SpecLLM == Init /\ [][NextLLM]_vars

\* The local store: the import and the lookups
NextStore ==
  \/ GetDatabaseStats
  \/ SqliteCli
  \/ InitDbPrices
  \/ InitDbSoil
  \/ GetLatestPrice
  \/ GetSoilHealth
  \/ GetLatestPricesAllMarkets

\* None of these reads the API key or the policy chatbot
InitStore == Init /\ api_key /\ policy_loaded

SpecStore == InitStore /\ [][NextStore]_vars

\* The prompt loop of run_interactive, from a fresh bot
NextInteractive ==
  \/ SetupCity
  \/ SetupCrop
  \/ SetupLanguage
  \/ InteractiveInterrupt
  \/ InteractiveLine

SpecInteractive == Init /\ [][NextInteractive]_vars


(***************************************************************************)
(* Properties of QueryClassifier (checked under SpecClassifier)            *)
(***************************************************************************)

KW_mandi == <<109,97,110,100,105>>  \* "mandi"
KW_rain == <<114,97,105,110>>  \* "rain"

IsClassify == last.op = "classify_query"

\* The last classify_query call went through _fallback_classification
FellBack == IsClassify /\ last.cls.path \in {"fallback_no_match", "fallback_except"}

\* The priority order the specification states for the keyword fallback
FallbackOrder == <<"weather", "policy", "price", "technical", "general", "agriculture">>

KeywordsOf(category) ==
  CASE category = "weather" -> weather_keywords
    [] category = "policy" -> policy_keywords
    [] category = "price" -> price_keywords
    [] category = "technical" -> technical_keywords
    [] category = "general" -> general_keywords
    [] category = "agriculture" -> agriculture_keywords

\* The keywords (as category and position) that occur in the lower-cased text
KeywordsIn(text) ==
  {<<c, i>> \in Categories \X (1..42) :
     i <= Len(KeywordsOf(c)) /\ Contains(KeywordsOf(c)[i], Lower(text))}

\* The first category of the order with a keyword in the set K, else general
FirstInOrder(K) ==
  LET hits == {n \in 1..Len(FallbackOrder) : \E k \in K : k[1] = FallbackOrder[n]}
  IN  IF hits = {} THEN "general" ELSE FallbackOrder[Min(hits)]

\* C1: classify_query is total: for every query and every outcome of the
\* pipeline (any label, an exception, a None intent) it returns one of the six
\* categories and no exception leaves it.
C1_ClassifyTotal ==
  IsClassify => (last.cls.category \in Categories /\ ~last.cls.raised)

C1_Witness ==
  /\ IsClassify
  /\ last.pipeline.kind = "raise"
  /\ last.cls.category \in Categories
  /\ ~last.cls.raised

\* C2: the keyword fallback returns the first category, in the order
\* weather > policy > price > technical > general > agriculture, that has a
\* keyword inside the lower-cased query, and "general" when none has.
C2_FallbackPriority ==
  FellBack => last.cls.category = FirstInOrder(KeywordsIn(last.query))

C2_Witness ==
  /\ FellBack
  /\ last.query = Q_what_is_farming
  /\ Score(agriculture_keywords, Lower(last.query)) > 0
  /\ Score(general_keywords, Lower(last.query)) > 0
  /\ last.cls.category = "general"

\* The six pipeline labels the specification names, with their categories
CanonicalLabels ==
  {<<L_weather_query, "weather">>, <<L_policy_query, "policy">>,
   <<L_price_query, "price">>, <<L_technical_support, "technical">>,
   <<L_general_inquiry, "general">>, <<L_crop_advice, "agriculture">>}

\* The positions of intent_mappings with an intent string inside the text
IntentHits(text) ==
  {n \in 1..Len(intent_mappings) :
     \E j \in 1..Len(intent_mappings[n].intents) :
       Contains(intent_mappings[n].intents[j], text)}

\* C3: when the pipeline gives a label and an intent string of intent_mappings
\* is inside the lower-cased label, classify_query returns the first category of
\* the mapping's order with such an intent string, whatever the query; the six
\* named labels give weather, policy, price, technical, general, agriculture.
C3_MappedLabel ==
  (IsClassify /\ last.pipeline.kind = "label") =>
    LET hits == IntentHits(Lower(last.pipeline.label))
    IN  /\ hits # {} =>
             /\ last.cls.category = FallbackOrder[Min(hits)]
             /\ last.cls.path = "mapped"
        /\ \A lc \in CanonicalLabels :
             last.pipeline.label = lc[1] => last.cls.category = lc[2]

C3_Witness ==
  /\ IsClassify
  /\ last.pipeline.label = L_crop_advice_price_query
  /\ last.query = Q_rain_now
  /\ last.cls.category = "price"

\* C4: classify_query falls back to keyword scoring exactly when the pipeline
\* raises (or its intent cannot be read) or the label contains no mapped intent
\* string, and then returns _fallback_classification(query).
C4_FallbackExactlyWhen ==
  IsClassify =>
    LET failed == last.pipeline.kind \in {"raise", "none_intent"}
        nomatch == last.pipeline.kind = "label"
                     /\ IntentHits(Lower(last.pipeline.label)) = {}
    IN  /\ FellBack <=> (failed \/ nomatch)
        /\ (failed \/ nomatch) =>
             last.cls.category = fallback_classification(last.query)

C4_Witness ==
  /\ IsClassify
  /\ last.pipeline.kind = "raise"
  /\ last.query = Q_rain_now
  /\ last.cls.path = "fallback_except"
  /\ last.cls.category = "weather"

\* C5: in the keyword fallback a query with "mandi" and no weather keyword is
\* classified "policy", also when it contains price keywords.
C5_MandiIsPolicy ==
  (FellBack /\ Contains(KW_mandi, Lower(last.query))
            /\ ~AnyIn(weather_keywords, Lower(last.query)))
    => last.cls.category = "policy"

C5_Witness ==
  /\ FellBack
  /\ last.query = Q_Mandi_price
  /\ Score(price_keywords, Lower(last.query)) > 0
  /\ last.cls.category = "policy"

\* For each query, the queries with the same text up to letter case or with
\* the same keywords
SameKeywords ==
  [q \in Queries |->
     {r \in Queries : Lower(r) = Lower(q) \/ KeywordsIn(r) = KeywordsIn(q)}]

\* What the keyword fallback answers for a query (the classifier's answer
\* when the pipeline raises)
FallbackOf(q) == Classify(q, [kind |-> "raise", label |-> << >>]).category

\* C6: the keyword fallback depends only on which keywords occur in the
\* lower-cased query: a query that differs from the classified one only in
\* letter case, or has the same keywords, gets the same category, now and after
\* any change of the session state; a query with "rain" inside is "weather".
C6_FallbackPure ==
  /\ [](FellBack =>
          /\ \A q \in SameKeywords[last.query] : FallbackOf(q) = last.cls.category
          /\ Contains(KW_rain, Lower(last.query)) => last.cls.category = "weather")
  /\ [][FellBack =>
          \A q \in SameKeywords[last.query] : FallbackOf(q)' = last.cls.category]_vars

C6_Witness ==
  /\ FellBack
  /\ last.query = Q_RAIN_now
  /\ user_city # None /\ user_crop # None /\ user_language = T_Hindi
  /\ last.cls.category = "weather"

(***************************************************************************)
(* Claims about process_query                                              *)
(***************************************************************************)

IsProcessQuery == last.op = "process_query"

\* The handler the dispatcher owes each category
HandlerOf(category) ==
  CASE category = "weather" -> "handle_weather_query"
    [] category = "policy" -> "handle_policy_query"
    [] category = "price" -> "handle_price_query"
    [] category = "technical" -> "handle_technical_query"
    [] category = "general" -> "handle_general_query"
    [] category = "agriculture" -> "handle_agriculture_query"
    [] OTHER -> "handle_general_query"

\* C7: for an initialized user, process_query invokes exactly one top-level
\* handler, the handler of the category the classifier returned; a value
\* outside the six categories goes to the general handler.
C7_OneHandlerOfCategory ==
  (IsProcessQuery /\ is_user_initialized) =>
    LET r == last.result
        cm == last.classifier
    IN  /\ Len(r.handlers) = 1
        /\ cm.kind = "pipeline" =>
             /\ r.query_type = Classify(last.query, cm.po).category
             /\ r.handlers[1] = HandlerOf(Classify(last.query, cm.po).category)
        /\ cm.kind = "stub_other" =>
             /\ r.query_type \notin Categories
             /\ r.handlers[1] = "handle_general_query"
        /\ cm.kind = "stub_raises" => r.handlers[1] = HandlerOf(r.query_type)

C7_Witness ==
  /\ IsProcessQuery /\ is_user_initialized
  /\ last.query = Q_tractor_fix
  /\ last.classifier.kind = "pipeline"
  /\ last.result.cls.category = "technical"
  /\ last.result.handlers = <<"handle_technical_query">>

\* A collaborator that process_query reached returned an error value or raised
Failure(env) ==
  \/ env.weather \in {"error_not_found", "error_other", "bad_report", "raise_division",
                    "raise_timeout", "raise_other"}
  \/ env.policy = "raise"
  \/ env.soil \in {"error", "raise"}
  \/ env.crops = "raise"
  \/ env.price \in {"error", "raise"}
  \/ env.trend \in {"error", "raise"}
  \/ env.http \in {"post_raises", "status_raises", "parse_raises"}

\* The only failure is get_price_trends returning an error value
OnlyTrendError(env) ==
  env.trend = "error" /\ ~Failure([env EXCEPT !.trend = "ok"])

\* The only failure is get_soil_health returning an error value to
\* _handle_crop_recommendation_query (the one handler that also asks for the
\* available crops)
OnlySoilErrorForCrops(env) ==
  /\ env.soil = "error" /\ env.crops \in CropsOutcomes \ {"raise"}
  /\ ~Failure([env EXCEPT !.soil = "ok"])

\* The response is a fallback general-advice answer: the text of
\* generate_general_advice given in the place of the handler's own answer,
\* which is straight after the intent line in _handle_policy_query (lines
\* 774-779 and 793-798) and after the 'General Soil Advice' and 'General Crop
\* Advice' headings (lines 846, 863 and 917)
HasFallbackAdvice(r) ==
  /\ \E i \in 1..Len(r.calls) : r.calls[i].fn = "generate_general_advice"
  /\ \E i \in 2..Len(r.response) :
       /\ r.response[i] = "llm_text"
       /\ r.response[i - 1] \in {"intent_policy", "general_soil_advice",
                                 "general_crop_advice"}

IsText(response) ==
  Len(response) > 0 /\ \A i \in 1..Len(response) : response[i] \in STRING

\* C8 as stated: process_query returns a string and never propagates an
\* exception whatever the collaborators do, and on every such failure the
\* text contains a cross-mark message or a fallback general-advice answer.
C8_Original ==
  IsProcessQuery =>
    /\ ~last.result.raised
    /\ IsText(last.result.response)
    /\ Failure(last.env) =>
         ContainsCross(last.result.response) \/ HasFallbackAdvice(last.result)

\* C8 (amended): as above, except when the only failure is an error value
\* that the handler leaves out of its answer without a word: the one of
\* get_price_trends in a price answer, the one of get_soil_health in a crop
\* recommendation.
C8_NeverRaises ==
  IsProcessQuery =>
    /\ ~last.result.raised
    /\ IsText(last.result.response)
    /\ (/\ Failure(last.env)
        /\ ~OnlyTrendError(last.env)
        /\ ~OnlySoilErrorForCrops(last.env)) =>
         ContainsCross(last.result.response) \/ HasFallbackAdvice(last.result)

\* The policy chatbot raises and the LLM answers: the fallback answer
C8_Witness ==
  /\ IsProcessQuery
  /\ last.env.policy = "raise" /\ last.env.http = "ok"
  /\ ~last.result.raised
  /\ ~ContainsCross(last.result.response)
  /\ HasFallbackAdvice(last.result)

(***************************************************************************)
(* Claims about the LLM client                                             *)
(***************************************************************************)

IsGenerate == last.op = "generate"

\* C9: every generate_* method returns a text that starts with the cross mark
\* and raises nothing when no API key is configured (and then sends no
\* request), or when the POST, its status check or the parsing raises.
C9_GenerateFailsSoftly ==
  (IsGenerate /\ (~api_key \/ last.http # "ok")) =>
    /\ StartsWithCross(last.result.text)
    /\ ~last.result.raised
    /\ ~api_key => last.result.posts = << >>

C9_Witness ==
  /\ IsGenerate /\ api_key
  /\ last.method = "generate_price_advice"
  /\ last.http = "parse_raises"
  /\ Len(last.result.posts) = 1
  /\ StartsWithCross(last.result.text)
  /\ ~last.result.raised

\* The case of C9 without an API key
C9_WitnessNoKey ==
  /\ IsGenerate /\ ~api_key
  /\ last.method = "generate_sql"
  /\ last.result.posts = << >>
  /\ last.result.text = <<"X_groq_api_key_not_found">>

(***************************************************************************)
(* Claims about the local store                                            *)
(***************************************************************************)

IsLookup ==
  last.op \in {"get_latest_price", "get_soil_health", "get_latest_prices_all_markets"}

\* C10: every lookup catches what its SQLite query raises and returns a
\* user-facing text instead: no exception leaves a lookup.
C10_LookupsNeverRaise ==
  IsLookup => (~last.result.raised /\ Len(last.result.text) > 0)

(***************************************************************************)
(* Claims about the calls of one process_query                             *)
(***************************************************************************)

\* The calls that leave the process
ExternalCalls ==
  {"http_post", "get_comprehensive_weather_report", "get_soil_health",
   "get_latest_price", "get_price_trends", "get_available_crops",
   "ask_question_with_groq"}

CountCalls(calls, fn) == Cardinality({i \in 1..Len(calls) : calls[i].fn = fn})

\* C11: there is no retry: one process_query call sends at most one HTTP POST
\* through the LLM client and makes no external call a second time.
C11_NoRetry ==
  IsProcessQuery =>
    \A fn \in ExternalCalls : CountCalls(last.result.calls, fn) <= 1

(***************************************************************************)
(* Claims about the session state                                          *)
(***************************************************************************)

\* C12: each setter changes only its own part of the session: set_user_city
\* sets user_city and is_initialized and leaves user_crop and user_language;
\* set_user_crop changes only user_crop; set_user_language changes only
\* user_language.
C12_SetterFrames ==
  [][/\ last'.op = "set_user_city" =>
          /\ user_city' = last'.arg /\ is_initialized'
          /\ UNCHANGED <<user_crop, user_language>>
     /\ last'.op = "set_user_crop" =>
          /\ user_crop' = last'.arg
          /\ UNCHANGED <<user_city, user_language, is_initialized>>
     /\ last'.op = "set_user_language" =>
          /\ user_language' = last'.arg
          /\ UNCHANGED <<user_city, user_crop, is_initialized>>]_vars

C12_Witness ==
  /\ last.op = "set_user_crop" /\ user_crop = T_Wheat
  /\ user_city = None /\ ~is_initialized /\ user_language = T_Hindi

\* C13: process_query never changes the session state, for every query,
\* classification and behaviour of the external calls.
C13_ProcessQueryKeepsSession ==
  [][last'.op = "process_query" => UNCHANGED session]_vars

C13_Witness ==
  /\ IsProcessQuery /\ last.query = Q_wheat_price_kanpur
  /\ last.result.handlers = <<"handle_price_query">>
  /\ \E i \in 1..Len(last.result.calls) :
       last.result.calls[i] = Call("get_latest_price", T_Kanpur)
  /\ last.env.price = "raise"
  /\ user_city = T_Pune /\ user_crop = T_Wheat /\ user_language = T_Hindi
  /\ is_initialized

\* C14: the setup gate.  For a user who is not initialized and a query without
\* help, city, crop, language or stats inside, process_query returns the
\* "Setup Required" message, classifies nothing and calls no collaborator.
\* (process_query leaves the session as it is, so is_user_initialized is read
\* after the call.)
C14_SetupGate ==
  (IsProcessQuery /\ ~is_user_initialized
     /\ ~AnyIn(setup_commands, Lower(last.query))) =>
    /\ last.result.response = <<"setup_required">>
    /\ last.result.calls = << >>
    /\ last.result.handlers = << >>
    /\ last.result.cls = NoCls

C14_Witness ==
  /\ IsProcessQuery /\ ~is_initialized /\ user_city = None
  /\ last.query = Q_rain_now
  /\ last.result.gated
  /\ last.result.response = <<"setup_required">>
  /\ last.result.calls = << >>

(***************************************************************************)
(* Claims about the rows of the local store                                *)
(***************************************************************************)

\* C15: init_db replaces both tables wholesale: after a successful init_db,
\* with no other program writing to the file while it ran, the rows of
\* mandi_prices and soil_health are exactly the rows of the given CSV files,
\* whatever the tables held before (so a second run with the same files
\* leaves what the first left).
C15_InitDbReplaces ==
  (last.op = "init_db" /\ last.done /\ ~last.raised /\ last.alone) =>
    SameDb(db, [mandi_prices |-> last.price_csv, soil_health |-> last.soil_csv])

\* A call that ended well where soil_health was there before: the table it
\* dropped, made again and filled
C15_Witness ==
  /\ last.op = "init_db" /\ last.done /\ ~last.raised /\ last.alone
  /\ last.statement = "INSERT" /\ last.replaced
  /\ SameDb(db, [mandi_prices |-> last.price_csv, soil_health |-> last.soil_csv])

\* C16: there is no update/delete path: no operation other than init_db
\* changes the rows of mandi_prices or soil_health.
C16_OnlyInitDbWrites ==
  [][last'.op # "init_db" => SameDb(db', db)]_vars

(***************************************************************************)
(* Claims about the order of the calls                                     *)
(***************************************************************************)

\* The calls of the LLM client, and the calls that gather context
LlmCalls == GenerateMethods \cup {"http_post"}
ContextCalls ==
  {"get_comprehensive_weather_report", "get_soil_health", "get_latest_price",
   "get_price_trends", "get_available_crops"}

\* C17: process_query is a linear chain: the classification is the first call
\* and the only one; in the handler every weather-service and data-manager
\* call comes before the LLM is called, none after it.
C17_LinearChain ==
  (IsProcessQuery /\ ~last.result.gated) =>
    LET calls == last.result.calls
    IN  /\ Len(calls) >= 1 /\ calls[1].fn = "classify_query"
        /\ CountCalls(calls, "classify_query") = 1
        /\ \A i, j \in 1..Len(calls) :
             (i < j /\ calls[i].fn \in LlmCalls) => calls[j].fn \notin ContextCalls

C17_Witness ==
  /\ IsProcessQuery /\ last.query = Q_wheat_price_kanpur
  /\ last.result.calls =
       <<Call("classify_query", NoArg), Call("get_latest_price", T_Kanpur),
         Call("get_price_trends", T_Kanpur), Call("generate_price_advice", NoArg),
         Post("sys_english_price")>>

(***************************************************************************)
(* Claims about the price path                                             *)
(***************************************************************************)

OnPricePath == IsProcessQuery /\ last.result.handlers = <<"handle_price_query">>

\* C18 as stated: a price query leads to a generate_sql call (whose result is
\* executed under execute-and-catch).
C18_Original ==
  OnPricePath => CountCalls(last.result.calls, "generate_sql") >= 1

\* C18 (amended): on the price path no SQL text is produced by the LLM:
\* generate_sql is never called; the prices come from the data manager's
\* lookups, and a lookup that raises, or a get_latest_price error value, is
\* caught and turned into a cross-mark text instead of propagating.
C18_PricePathLookups ==
  OnPricePath =>
    LET calls == last.result.calls
    IN  /\ CountCalls(calls, "generate_sql") = 0
        /\ CountCalls(calls, "get_latest_price")
             + CountCalls(calls, "get_available_crops") = 1
        /\ ~last.result.raised
        /\ (\/ last.env.price \in {"error", "raise"}
            \/ last.env.trend = "raise"
            \/ last.env.crops = "raise") => ContainsCross(last.result.response)

C18_Witness ==
  /\ OnPricePath /\ last.query = Q_wheat_price_kanpur
  /\ last.env.price = "raise" /\ last.env.http = "ok"
  /\ ~last.result.raised
  /\ ContainsCross(last.result.response)
  /\ CountCalls(last.result.calls, "generate_price_advice") = 1
  /\ CountCalls(last.result.calls, "generate_sql") = 0

(***************************************************************************)
(* Claims about the initialization                                         *)
(***************************************************************************)

\* C19: initialization is monotonic: the user is not initialized at the
\* start, becomes initialized at a set_user_city call and by nothing else,
\* and then stays initialized, with a city, under every operation.
C19_InitMonotonic ==
  /\ [](last.op = "init" => ~is_user_initialized)
  /\ [][/\ last'.op = "set_user_city" => is_user_initialized'
        /\ (~is_user_initialized /\ last'.op # "set_user_city") => ~is_user_initialized'
        /\ is_user_initialized => (is_user_initialized' /\ user_city' # None)]_vars

C19_Witness ==
  /\ last.op = "set_user_language" /\ last.arg = T_Hindi
  /\ is_user_initialized /\ user_city = T_Pune /\ user_crop = T_Wheat

\* C20: the weather service is called only for an initialized user, with the
\* user's city, never with None: also when the query passes the setup gate
\* through a setup word and is classified as weather.
C20_WeatherNeedsCity ==
  IsProcessQuery =>
    \A i \in 1..Len(last.result.calls) :
      last.result.calls[i].fn = "get_comprehensive_weather_report" =>
        /\ is_user_initialized
        /\ last.result.calls[i].arg = user_city
        /\ last.result.calls[i].arg # None

C20_Witness ==
  /\ IsProcessQuery /\ ~is_user_initialized
  /\ last.query = Q_city_rain
  /\ ~last.result.gated
  /\ last.result.query_type = "weather"
  /\ last.result.handlers = <<"handle_weather_query">>
  /\ last.result.calls = <<Call("classify_query", NoArg)>>
  /\ last.result.response = <<"intent_weather", "please_complete_setup">>

(***************************************************************************)
(* Claims about the handlers                                               *)
(***************************************************************************)

OnWeatherPath == IsProcessQuery /\ last.result.handlers = <<"handle_weather_query">>

\* C21: when the weather report has an 'error' entry, the weather handler
\* returns a cross-mark message (the location-not-found wording when the
\* error text has 'Could not find location' inside, the fetch-error wording
\* otherwise) and does not call the LLM.
C21_WeatherErrorNoLLM ==
  (OnWeatherPath /\ last.env.weather \in {"error_not_found", "error_other"}) =>
    /\ last.result.response =
         IF last.env.weather = "error_not_found"
         THEN <<"X_could_not_find_weather_data">>
         ELSE <<"X_could_not_fetch_weather_data">>
    /\ StartsWithCross(last.result.response)
    /\ CountCalls(last.result.calls, "get_comprehensive_weather_report") = 1
    /\ \A i \in 1..Len(last.result.calls) : last.result.calls[i].fn \notin LlmCalls

C21_Witness ==
  /\ OnWeatherPath /\ api_key /\ last.env.weather = "error_not_found"
  /\ last.result.response = <<"X_could_not_find_weather_data">>
  /\ last.result.calls =
       <<Call("classify_query", NoArg), Call("get_comprehensive_weather_report", T_Pune)>>

OnPolicyPath == IsProcessQuery /\ last.result.handlers = <<"handle_policy_query">>

\* The policy intent header followed by the general-advice answer
PolicyFallbackAnswer ==
  /\ last.result.response =
       <<"intent_policy">>
         \o generate("generate_general_advice", last.query, user_language, TRUE,
                     last.env.http).text
  /\ CountCalls(last.result.calls, "generate_general_advice") = 1

\* C22: policy fallback.  Without a loaded policy database the handler never
\* calls ask_question_with_groq and returns the header and the general-advice
\* answer; with the database loaded and ask_question_with_groq raising, the
\* same; the policy sources are appended only when ask_question_with_groq
\* returned.
C22_PolicyFallback ==
  OnPolicyPath =>
    /\ ~policy_loaded =>
         /\ CountCalls(last.result.calls, "ask_question_with_groq") = 0
         /\ PolicyFallbackAnswer
    /\ (policy_loaded /\ last.env.policy = "raise") =>
         /\ CountCalls(last.result.calls, "ask_question_with_groq") = 1
         /\ PolicyFallbackAnswer
    /\ (\E i \in 1..Len(last.result.response) :
          last.result.response[i] = "sources_policy")
         <=> (policy_loaded /\ last.env.policy = "ok")

C22_Witness ==
  /\ OnPolicyPath /\ policy_loaded /\ last.env.policy = "raise"
  /\ last.env.http = "ok"
  /\ last.result.response = <<"intent_policy", "llm_text">>
  /\ CountCalls(last.result.calls, "ask_question_with_groq") = 1

\* The case of C22 without a loaded policy database
C22_WitnessNotLoaded ==
  /\ OnPolicyPath /\ ~policy_loaded /\ last.env.http = "ok"
  /\ last.result.response = <<"intent_policy", "llm_text">>
  /\ CountCalls(last.result.calls, "ask_question_with_groq") = 0

\* C23: when no crop is extracted from a price query, the handler returns
\* the general price information of the location (the query's, else the
\* user's city, else Kanpur) and calls no LLM; the price-advice call is made
\* only when a crop was extracted.
C23_PriceWithoutCrop ==
  OnPricePath =>
    LET ex == extract_crop_and_location(last.query)
        location == IF ex.location # None THEN ex.location
                    ELSE IF user_city # None /\ user_city # << >> THEN user_city
                    ELSE T_Kanpur
        calls == last.result.calls
    IN  /\ ex.crop = None =>
             /\ calls = <<Call("classify_query", NoArg),
                          Call("get_available_crops", location)>>
             /\ last.result.response \in
                  {<<"intent_price", "available_crops", "tip">>,
                   <<"intent_price", "X_no_price_data_available">>,
                   <<"intent_price", "X_error_retrieving_price_information">>}
        /\ (\E i \in 1..Len(calls) : calls[i].fn \in LlmCalls) => ex.crop # None

C23_Witness ==
  /\ OnPricePath /\ last.query = Q_market_rate_agra /\ user_city = T_Pune
  /\ last.result.calls =
       <<Call("classify_query", NoArg), Call("get_available_crops", D_agra)>>
  /\ last.result.response = <<"intent_price", "available_crops", "tip">>

OnAgriculturePath ==
  IsProcessQuery /\ last.result.handlers = <<"handle_agriculture_query">>

SoilBranchTexts == {"X_soil_error", "soil_health_data", "X_error_retrieving_soil_data"}
CropBranchTexts == {"crop_information", "X_error_retrieving_crop_data"}

\* C24: the agriculture handler routes a query with a soil keyword to the
\* soil-health handler, also when a crop keyword is inside; else a query with
\* a crop keyword to the crop-recommendation handler; else it generates
\* general advice.  One branch runs.
C24_AgricultureRouting ==
  OnAgriculturePath =>
    LET soil == AnyIn(soil_keywords, Lower(last.query))
        crop == AnyIn(crop_keywords, Lower(last.query))
        r == last.result
        branch == IF r.response[2] \in SoilBranchTexts THEN "soil"
                  ELSE IF r.response[2] \in CropBranchTexts THEN "crop"
                  ELSE "general"
    IN  /\ r.response[1] = "intent_agriculture"
        /\ branch = IF soil THEN "soil" ELSE IF crop THEN "crop" ELSE "general"
        /\ branch = "soil" =>
             /\ CountCalls(r.calls, "get_soil_health") = 1
             /\ CountCalls(r.calls, "get_available_crops") = 0
             /\ \A i \in 1..Len(r.response) : r.response[i] \notin CropBranchTexts
        /\ branch = "crop" =>
             \A i \in 1..Len(r.response) : r.response[i] \notin SoilBranchTexts
        /\ branch = "general" =>
             /\ \A i \in 1..Len(r.calls) : r.calls[i].fn \notin ContextCalls
             /\ CountCalls(r.calls, "generate_general_advice") = 1

C24_Witness ==
  /\ OnAgriculturePath /\ last.query = Q_crop_for_soil
  /\ AnyIn(soil_keywords, Lower(last.query)) /\ AnyIn(crop_keywords, Lower(last.query))
  /\ last.env.soil = "ok"
  /\ last.result.response[2] = "soil_health_data"
  /\ CountCalls(last.result.calls, "get_available_crops") = 0

\* C26: when the classifier raises inside process_query, the query type is
\* the inline fallback's: price words before weather words before policy
\* words, else general; the query still goes to one handler, that type's.
C26_InlineFallback ==
  (IsProcessQuery /\ ~last.result.gated /\ last.classifier.kind = "stub_raises") =>
    LET q == Lower(last.query)
        expected == IF AnyIn(inline_price_words, q) THEN "price"
                    ELSE IF AnyIn(inline_weather_words, q) THEN "weather"
                    ELSE IF AnyIn(inline_policy_words, q) THEN "policy"
                    ELSE "general"
    IN  /\ last.result.classify_failed
        /\ last.result.query_type = expected
        /\ last.result.handlers = <<HandlerOf(expected)>>

C26_Witness ==
  /\ IsProcessQuery /\ last.classifier.kind = "stub_raises"
  /\ last.query = Q_mandi_rain
  /\ AnyIn(inline_weather_words, Lower(last.query))
  /\ last.result.query_type = "price"
  /\ last.result.handlers = <<"handle_price_query">>

\* The context each advice-generating method names for its system message
ContextOf(method) ==
  CASE method \in {"generate_weather_advice", "generate_weather_advice_comprehensive"}
         -> "weather"
    [] method = "generate_price_advice" -> "price"
    [] OTHER -> "general"

\* C25: in every advice-generating method the effective language is Hindi
\* when the requested language is T_English and the query has a Devanagari
\* character, the requested language otherwise, and the system message of
\* the request posted to the LLM is _get_language_system_message of that
\* language and the method's context.
C25_SystemMessage ==
  (IsGenerate /\ last.method # "generate_sql" /\ last.result.posts # << >>) =>
    LET hindi_query == \E i \in 1..Len(last.query) : last.query[i] \in 2304..2431
        effective == IF last.language = T_English /\ hindi_query
                     THEN T_Hindi ELSE last.language
    IN  last.result.posts[1].system =
          get_language_system_message(effective, ContextOf(last.method))

IsInteractiveLine ==
  last.op = "run_interactive" /\ last.prompt = "loop" /\ last.exc = NoExc

\* C27: run_interactive matches a line in the order quit/exit/q, help,
\* stats, prefix 'city', prefix 'crop', prefix 'language', free query.  A line
\* whose lower-cased text starts with city, crop or language is handled as a
\* settings command and never passed to process_query; process_query is
\* called only for a non-empty line that matches none of the commands.
C27_InteractiveMatching ==
  IsInteractiveLine =>
    LET text == Strip(last.input)
        lowered == Lower(text)
        exact == lowered \in {T_quit, T_exit, T_q, T_help, T_stats}
        command == IF StartsWith(lowered, T_city) THEN "handle_city_command"
                   ELSE IF StartsWith(lowered, T_crop) THEN "handle_crop_command"
                   ELSE IF StartsWith(lowered, T_language)
                   THEN "handle_language_command"
                   ELSE NA
        queried == \E i \in 1..Len(last.called) : last.called[i] = "process_query"
    IN  /\ command # NA => (~queried /\ last.called[1] = command)
        /\ queried <=> (text # << >> /\ ~exact /\ command = NA)
        /\ queried => last.query = text
        /\ exact => last.called \in {<< >>, <<"show_help">>, <<"show_stats">>}

C27_Witness ==
  /\ IsInteractiveLine /\ last.input = Q_crop_yield
  /\ last.called = <<"handle_crop_command", "set_user_crop">>
  /\ user_crop = T_yield

\* The other case of C27: a free query reaches process_query
C27_WitnessQuery ==
  /\ IsInteractiveLine /\ last.input = <<32,114,97,105,110,32,110,111,119,32>>  \* " rain now "
  /\ last.called = <<"process_query">> /\ last.query = Q_rain_now

====
